---- MODULE Spec2Model ----
(***************************************************************************)
(* Model of slang's SourceLoader (source/driver/SourceLoader.cpp): the     *)
(* file registry with library precedence, and loadAndParseSources with its *)
(* sequential and thread-pool paths.                                       *)
(***************************************************************************)
EXTENDS Integers, Sequences, FiniteSets, TLC

\* ------------------------------------------------------------------------
\* Bounds of the model
\* ------------------------------------------------------------------------
MaxLog == 3         \* records the registration calls of a run append in all: file
                    \* registrations, error records and retained library maps
MaxFiles == 4       \* file entries of the registry handed to loadAndParseSources
PoolThreads == 2    \* worker threads of the pool

\* static constexpr int MinFilesForThreading (SourceLoader.h)
MinFilesForThreading == 4

\* ------------------------------------------------------------------------
\* Values
\* ------------------------------------------------------------------------
NoLib == ""                       \* const SourceLibrary* nullptr
LibNames == {"", "A", "B"}        \* names handed to getOrAddLibrary
FileNames == <<"f1.sv", "f2.sv", "f3.sv", "f4.sv", "f5.sv", "f6.sv">>
RegPaths == {FileNames[1], FileNames[2]}  \* paths the patterns of the registry runs expand to
Patterns == {"pat"}
Ranks == {0, 1}                   \* the ranks svGlob gives a pattern; lower is more specific
\* A null shared_ptr<SyntaxTree>; a default-constructed LoadResult holds one.
NoTree == [buffers |-> <<>>, isLibrary |-> FALSE, inherited |-> {}]
NoResult == [kind |-> "tree", tree |-> NoTree]

VARIABLES
    fileEntries,        \* std::vector<FileEntry>
    fileIndex,          \* flat_hash_map<path, size_t>: path -> position in fileEntries (0-based)
    libraries,          \* names of the SourceLibrary objects created so far
    errors,             \* std::vector<std::pair<path, error_code>>
    libraryMapTrees,    \* std::vector<std::shared_ptr<SyntaxTree>> of the library maps read
    regs,               \* history: the registrations processed by addFilesInternal, in order
    options,            \* SourceOptions: singleUnit, librariesInheritMacros, onlyLint, numThreads
    readable,           \* the paths sourceManager.readSource can read
    pc,                 \* position inside loadAndParseSources
    syntaxTrees,        \* SyntaxTreeList syntaxTrees
    singleUnitBuffers,  \* std::vector<SourceBuffer>
    deferredLibBuffers, \* std::vector<SourceBuffer>
    inheritedMacros,    \* std::span<const DefineDirectiveSyntax* const>
    loadResults,        \* std::vector<LoadResult> of the thread-pool path
    cursor,             \* loop index of the sequential loops (0-based)
    blocks,             \* the index ranges pushLoop handed to the pool, one per task
    numTrees,           \* const size_t numTrees of the thread-pool path
    searchDirectories,  \* std::vector<fs::path> searchDirectories
    searchExtensions,   \* std::vector<fs::path> searchExtensions
    uniqueExtensions,   \* flat_hash_set<std::string_view> uniqueExtensions
    extAdds,            \* history: the extensions handed to addSearchExtension, in order
    cached,             \* the paths sourceManager.isCached answers true for
    knownNames,         \* flat_hash_set<std::string_view> knownNames
    missingNames,       \* flat_hash_set<std::string_view> missingNames
    nextMissingNames,   \* flat_hash_set<std::string_view> nextMissingNames
    pending,            \* the names of missingNames the for loop of the round has yet to visit
    round,              \* iterations of the discovery loop begun so far
    examined,           \* history: every name findMissingNames has put into a set
    mapStack,           \* the activations of addLibraryMaps, innermost last
    mapFiles,           \* the library map documents on disk
    parameterDecls,     \* ParameterBuilder: span<const Decl> parameterDecls
    parameters,         \* ParameterValueAssignmentSyntax::parameters of the call
    assignments,        \* ParameterBuilder: map from parameter name to expression
    diags,              \* the diagnostics added to the scope
    paramPc             \* position of the parameter builder

regVars == <<fileEntries, fileIndex, libraries, errors, libraryMapTrees, regs>>
loadVars == <<options, readable, pc, syntaxTrees, singleUnitBuffers, deferredLibBuffers,
              inheritedMacros, loadResults, cursor, blocks, numTrees>>
discVars == <<cached, knownNames, missingNames, nextMissingNames, pending, round, examined>>
mapVars == <<mapStack, mapFiles>>
paramVars == <<parameterDecls, parameters, assignments, diags, paramPc>>
moreVars == <<searchDirectories, searchExtensions, uniqueExtensions, extAdds, discVars, mapVars,
              paramVars>>
vars == <<fileEntries, fileIndex, libraries, errors, libraryMapTrees, regs, options, readable, pc,
          syntaxTrees, singleUnitBuffers, deferredLibBuffers, inheritedMacros,
          loadResults, cursor, blocks, numTrees, moreVars>>

\* No parameter builder has been constructed.
InitParamIdle ==
    /\ parameterDecls = <<>>
    /\ parameters = <<>>
    /\ assignments = <<>>
    /\ diags = {}
    /\ paramPc = "idle"


\* ------------------------------------------------------------------------
\* Helpers
\* ------------------------------------------------------------------------
Range(s) == {s[i] : i \in 1..Len(s)}

Min(S) == CHOOSE x \in S : \A y \in S : x <= y

\* Sequences over S without repetition, of length at most n.
NoDupSeqs(S, n) ==
    {s \in UNION {[1..k -> S] : k \in 0..n} :
        \A i, j \in 1..Len(s) : i # j => s[i] # s[j]}

\* ------------------------------------------------------------------------
\* The file registry: getOrAddLibrary, addFilesInternal
\* ------------------------------------------------------------------------

\* The registry part of the loader's state, threaded through the operators
\* below the way the member functions update the object.
RegState == [fileEntries |-> fileEntries, fileIndex |-> fileIndex,
             libraries |-> libraries, errors |-> errors,
             libraryMapTrees |-> libraryMapTrees, regs |-> regs]

\* The outcome of svGlob for a pattern: the files it expands to, the rank of
\* the pattern, and whether expansion failed.
\* A failed expansion may have put some files into the list already.
GlobOutcomes ==
    [pattern : Patterns, files : NoDupSeqs(RegPaths, 2), rank : Ranks, ec : {FALSE}]
        \cup [pattern : Patterns, files : NoDupSeqs(RegPaths, 1), rank : {0}, ec : {TRUE}]

\* getOrAddLibrary: the library pointer for a name (nullptr for the empty name).
LibraryOf(name) == IF name = "" THEN NoLib ELSE name

\* getOrAddLibrary: the library map after the call.
LibrariesWith(libs, name) == IF name = "" THEN libs ELSE libs \cup {name}

\* FileEntry(path, isLibraryFile, library, rank); secondLib starts as nullptr.
NewFileEntry(path, isLibraryFile, library, rank) ==
    [path |-> path, isLibraryFile |-> isLibraryFile, library |-> library,
     libraryRank |-> rank, secondLib |-> NoLib]

\* Faulty variant: the flag is assigned instead of and-ed.
MergeIsLibraryFile_Assign(entry, isLibraryFile) ==
    [entry EXCEPT !.isLibraryFile = isLibraryFile]

\* entry.isLibraryFile &= isLibraryFile
MergeIsLibraryFile(entry, isLibraryFile) ==
    [entry EXCEPT !.isLibraryFile = entry.isLibraryFile /\ isLibraryFile]

\* Faulty variant: an equal rank overrules too (<= for <).
MergeLibrary_TieOverrules(entry, library, rank) ==
    IF library # NoLib
    THEN IF entry.library = NoLib \/ rank <= entry.libraryRank
         THEN [entry EXCEPT !.library = library, !.libraryRank = rank]
         ELSE entry
    ELSE entry

\* Faulty variant: the comparison of the ranks is reversed (> for <).
MergeLibrary_HigherRankWins(entry, library, rank) ==
    IF library # NoLib
    THEN IF entry.library = NoLib \/ rank > entry.libraryRank
         THEN [entry EXCEPT !.library = library, !.libraryRank = rank]
         ELSE IF rank = entry.libraryRank
              THEN [entry EXCEPT !.secondLib = library]
              ELSE entry
    ELSE entry

\* The library reconciliation of an already registered entry.
MergeLibrary(entry, library, rank) ==
    IF library # NoLib
    THEN IF entry.library = NoLib \/ rank < entry.libraryRank
         THEN [entry EXCEPT !.library = library, !.libraryRank = rank]
         ELSE IF rank = entry.libraryRank
              THEN [entry EXCEPT !.secondLib = library]
              ELSE entry
    ELSE entry

\* One iteration of the loop over the globbed files.
RegisterFile(st, path, isLibraryFile, library, rank) ==
    LET reg == [path |-> path, isLibraryFile |-> isLibraryFile,
                library |-> library, rank |-> rank]
    IN IF path \notin DOMAIN st.fileIndex
       THEN [st EXCEPT
                !.fileIndex = [p \in DOMAIN st.fileIndex \cup {path} |->
                                  IF p = path THEN Len(st.fileEntries)
                                  ELSE st.fileIndex[p]],
                !.fileEntries = Append(st.fileEntries,
                                       NewFileEntry(path, isLibraryFile, library, rank)),
                !.regs = Append(st.regs, reg)]
       ELSE LET pos == st.fileIndex[path] + 1
                entry == st.fileEntries[pos]
            IN [st EXCEPT
                   !.fileEntries[pos] =
                       MergeLibrary(MergeIsLibraryFile(entry, isLibraryFile), library, rank),
                   !.regs = Append(st.regs, reg)]

RECURSIVE RegisterFiles(_, _, _, _, _)
RegisterFiles(st, files, isLibraryFile, library, rank) ==
    IF files = <<>> THEN st
    ELSE RegisterFiles(RegisterFile(st, Head(files), isLibraryFile, library, rank),
                       Tail(files), isLibraryFile, library, rank)

\* An error record of the errors list.
ErrorRecord(what) == [what |-> what]

\* Faulty variant: the early return after a failed expansion is missing.
AddFilesInternal_NoReturn(st, glob, isLibraryFile, library) ==
    RegisterFiles(IF glob.ec
                  THEN [st EXCEPT !.errors = Append(st.errors, ErrorRecord(glob.pattern))]
                  ELSE st,
                  glob.files, isLibraryFile, library, glob.rank)

\* addFilesInternal(pattern, basePath, isLibraryFile, library, expandEnvVars)
AddFilesInternal(st, glob, isLibraryFile, library) ==
    IF glob.ec
    THEN [st EXCEPT !.errors = Append(st.errors, ErrorRecord(glob.pattern))]
    ELSE RegisterFiles(st, glob.files, isLibraryFile, library, glob.rank)

\* The registry calls stay within the bounds of the model.
\* Paths are named by the order of their first registration.
WithinRegBounds(st) ==
    /\ Len(st.regs) + Len(st.errors) + Len(st.libraryMapTrees)
           + Len(searchDirectories) <= MaxLog
    /\ \A i \in 1..Len(st.fileEntries) : st.fileEntries[i].path = FileNames[i]

SetRegState(st) ==
    /\ WithinRegBounds(st)
    /\ fileEntries' = st.fileEntries
    /\ fileIndex' = st.fileIndex
    /\ libraries' = st.libraries
    /\ errors' = st.errors
    /\ libraryMapTrees' = st.libraryMapTrees
    /\ regs' = st.regs

\* addFiles(pattern), for a pattern svGlob expands to glob.
AddFilesWith(glob) ==
    /\ SetRegState(AddFilesInternal(RegState, glob, FALSE, NoLib))
    /\ UNCHANGED <<loadVars, moreVars>>

\* addFiles(pattern)
AddFiles == \E glob \in GlobOutcomes : AddFilesWith(glob)

\* addLibraryFiles(libName, pattern), for a pattern svGlob expands to glob.
AddLibraryFilesWith(libName, glob) ==
    /\ SetRegState(AddFilesInternal(
           [RegState EXCEPT !.libraries = LibrariesWith(libraries, libName)],
           glob, TRUE, LibraryOf(libName)))
    /\ UNCHANGED <<loadVars, moreVars>>

\* addLibraryFiles(libName, pattern)
AddLibraryFiles ==
    \E libName \in LibNames, glob \in GlobOutcomes : AddLibraryFilesWith(libName, glob)

\* ------------------------------------------------------------------------
\* Library maps: addLibraryMaps, createLibrary, getPathFromSpec
\* ------------------------------------------------------------------------

\* A file path spec of a library map: the token text between its delimiters
\* is empty (the token is shorter than three characters) or is a pattern,
\* given here by what svGlob expands it to.
MapGlobOutcomes == {g \in GlobOutcomes : Len(g.files) <= 1}
FileSpecs == [short : {FALSE}, glob : MapGlobOutcomes]
                 \cup [short : {TRUE}, glob : {g \in MapGlobOutcomes : g.ec /\ g.files = <<>>}]

\* getPathFromSpec: empty when the token has fewer than three characters.
SpecIsEmpty(spec) == spec.short

\* createLibrary(syntax, basePath)
RECURSIVE CreateLibraryFiles(_, _, _)
CreateLibraryFiles(st, filePaths, library) ==
    IF filePaths = <<>> THEN st
    ELSE LET spec == Head(filePaths)
             next == IF SpecIsEmpty(spec) THEN st
                     ELSE AddFilesInternal(st, spec.glob, TRUE, library)
         IN CreateLibraryFiles(next, Tail(filePaths), library)

CreateLibrary(st, decl) ==
    IF decl.name = "" THEN st
    ELSE CreateLibraryFiles(
             [st EXCEPT !.libraries = LibrariesWith(st.libraries, decl.name)],
             decl.filePaths, LibraryOf(decl.name))

\* The members of a library map document.
EmptyMember == [kind |-> "EmptyMember"]
ConfigDeclaration == [kind |-> "ConfigDeclaration"]
LibraryDeclarations ==
    [kind : {"LibraryDeclaration"}, name : LibNames, filePaths : [1..1 -> FileSpecs]]

\* A library map document on disk; a glob of documents.
MapDocument(path, canRead, members) ==
    [path |-> path, canRead |-> canRead, members |-> members]
MapGlob(pattern, ec, files) == [pattern |-> pattern, ec |-> ec, files |-> files]
LibraryInclude(short, glob) ==
    [kind |-> "LibraryIncludeStatement", short |-> short, glob |-> glob]

\* addLibraryMaps(pattern, basePath, optionBag, expandEnvVars): the loop over
\* the documents of the glob, and for each the loop over its members.
RECURSIVE AddLibraryMaps(_, _), AddMapDocuments(_, _), AddMapMembers(_, _)
AddMapMembers(st, members) ==
    IF members = <<>> THEN st
    ELSE LET member == Head(members)
             next ==
                 CASE member.kind \in {"ConfigDeclaration", "EmptyMember"} -> st
                   [] member.kind = "LibraryIncludeStatement" ->
                          IF SpecIsEmpty(member) THEN st
                          ELSE AddLibraryMaps(st, member.glob)
                   [] member.kind = "LibraryDeclaration" -> CreateLibrary(st, member)
         IN AddMapMembers(next, Tail(members))

AddMapDocuments(st, files) ==
    IF files = <<>> THEN st
    ELSE LET doc == Head(files)
             next ==
                 IF ~doc.canRead
                 THEN [st EXCEPT !.errors = Append(st.errors, ErrorRecord(doc.path))]
                 ELSE AddMapMembers(
                          [st EXCEPT !.libraryMapTrees = Append(st.libraryMapTrees, doc.path)],
                          doc.members)
         IN AddMapDocuments(next, Tail(files))

AddLibraryMaps(st, glob) ==
    IF glob.ec
    THEN [st EXCEPT !.errors = Append(st.errors, ErrorRecord(glob.pattern))]
    ELSE AddMapDocuments(st, glob.files)

\* The library map globs handed to addLibraryMaps: a document with one
\* library declaration, alone or included from another document next to an
\* empty and a config member; an unreadable document; a failed glob; an
\* include whose spec is too short.
MapInputs ==
    {MapGlob("pat", FALSE, <<MapDocument("lib.map", TRUE, <<d>>)>>) :
        d \in LibraryDeclarations}
    \cup {MapGlob("pat", FALSE,
              <<MapDocument("top.map", TRUE,
                    <<EmptyMember,
                      LibraryInclude(FALSE,
                          MapGlob("inc", FALSE, <<MapDocument("lib.map", TRUE, <<d>>)>>)),
                      ConfigDeclaration>>)>>) :
            d \in LibraryDeclarations}
    \cup {MapGlob("pat", FALSE, <<MapDocument("lib.map", FALSE, <<>>)>>),
          MapGlob("pat", TRUE, <<>>),
          MapGlob("pat", TRUE, <<MapDocument("lib.map", TRUE, <<EmptyMember>>)>>),
          MapGlob("pat", FALSE,
              <<MapDocument("top.map", TRUE,
                    <<LibraryInclude(TRUE, MapGlob("inc", TRUE, <<>>))>>)>>)}

\* addLibraryMaps(pattern, basePath, optionBag, expandEnvVars), for a pattern
\* svGlob expands to glob.
AddLibraryMapsWith(glob) ==
    /\ SetRegState(AddLibraryMaps(RegState, glob))
    /\ UNCHANGED <<loadVars, moreVars>>

AddLibraryMapsCall == \E glob \in MapInputs : AddLibraryMapsWith(glob)

\* ------------------------------------------------------------------------
\* Registration runs
\* ------------------------------------------------------------------------
InitLoadIdle ==
    /\ options = [singleUnit |-> FALSE, librariesInheritMacros |-> FALSE,
                  onlyLint |-> FALSE, numThreads |-> 1]
    /\ readable = {}
    /\ pc = "idle"
    /\ syntaxTrees = <<>>
    /\ singleUnitBuffers = <<>>
    /\ deferredLibBuffers = <<>>
    /\ inheritedMacros = {}
    /\ loadResults = <<>>
    /\ cursor = 0
    /\ blocks = <<>>
    /\ numTrees = 0

\* The search lists after construction and the locals of the discovery loop
\* and of addLibraryMaps outside of a call. The constructor fills
\* searchExtensions from a hash set; these runs take the order .v, .sv.
InitMoreIdle ==
    /\ searchDirectories = <<>>
    /\ searchExtensions = <<".v", ".sv">>
    /\ uniqueExtensions = {".v", ".sv"}
    /\ extAdds = <<>>
    /\ cached = {}
    /\ knownNames = {}
    /\ missingNames = {}
    /\ nextMissingNames = {}
    /\ pending = {}
    /\ round = 0
    /\ examined = {}
    /\ mapStack = <<>>
    /\ InitParamIdle
    /\ mapFiles = <<>>

InitReg ==
    /\ InitMoreIdle
    /\ fileEntries = <<>>
    /\ fileIndex = <<>>
    /\ libraries = {}
    /\ errors = <<>>
    /\ libraryMapTrees = <<>>
    /\ regs = <<>>
    /\ InitLoadIdle

NextReg == AddFiles \/ AddLibraryFiles \/ AddLibraryMapsCall

SpecReg == InitReg /\ [][NextReg]_vars

\* ------------------------------------------------------------------------
\* loadAndParse, handleLoadResult, parseSingleUnit
\* ------------------------------------------------------------------------

\* The macros the `define directives of a file define.
MacrosOf(path) ==
    IF path \in {FileNames[1], FileNames[4]} THEN {path} ELSE {}

\* A syntax tree: the buffers it was parsed from, its isLibrary flag and the
\* inherited macros it was parsed with.
SyntaxTree(buffers, isLibrary, inherited) ==
    [buffers |-> buffers, isLibrary |-> isLibrary, inherited |-> inherited]

\* tree->getDefinedMacros()
DefinedMacros(tree) == UNION {MacrosOf(tree.buffers[i]) : i \in 1..Len(tree.buffers)}

\* The three alternatives of LoadResult.
TreeResult(tree) == [kind |-> "tree", tree |-> tree]
BufferResult(path, isDeferredLib) ==
    [kind |-> "buffer", buffer |-> path, isDeferredLib |-> isDeferredLib]
ErrorResult(path) == [kind |-> "error", path |-> path]

\* SLANG_ASSERT(entry.isLibraryFile) is reached with an entry that violates it.
AssertFails(entry, srcOptions) ==
    /\ entry.path \in readable
    /\ ~(~entry.isLibraryFile /\ srcOptions.singleUnit)
    /\ srcOptions.librariesInheritMacros
    /\ ~entry.isLibraryFile

\* Faulty variant: direct files are parsed right away in single-unit mode too.
LoadAndParse_NoSingleUnit(entry, srcOptions) ==
    IF entry.path \notin readable
    THEN ErrorResult(entry.path)
    ELSE IF srcOptions.librariesInheritMacros
         THEN BufferResult(entry.path, TRUE)
         ELSE TreeResult(SyntaxTree(<<entry.path>>,
                                    entry.isLibraryFile \/ srcOptions.onlyLint, {}))

\* Faulty variant: an immediately parsed tree takes its mark from the entry
\* alone, onlyLint is not looked at.
LoadAndParse_NoLintMark(entry, srcOptions) ==
    IF entry.path \notin readable
    THEN ErrorResult(entry.path)
    ELSE IF ~entry.isLibraryFile /\ srcOptions.singleUnit
         THEN BufferResult(entry.path, FALSE)
         ELSE IF srcOptions.librariesInheritMacros
              THEN BufferResult(entry.path, TRUE)
              ELSE TreeResult(SyntaxTree(<<entry.path>>, entry.isLibraryFile, {}))

\* loadAndParse(entry, optionBag, srcOptions), past the assertion.
LoadAndParse(entry, srcOptions) ==
    IF entry.path \notin readable
    THEN ErrorResult(entry.path)
    ELSE IF ~entry.isLibraryFile /\ srcOptions.singleUnit
         THEN BufferResult(entry.path, FALSE)
         ELSE IF srcOptions.librariesInheritMacros
              THEN BufferResult(entry.path, TRUE)
              ELSE TreeResult(SyntaxTree(<<entry.path>>,
                                         entry.isLibraryFile \/ srcOptions.onlyLint, {}))

\* The locals of loadAndParseSources and the error list, threaded through
\* the lambdas below.
LoadState == [syntaxTrees |-> syntaxTrees, singleUnitBuffers |-> singleUnitBuffers,
              deferredLibBuffers |-> deferredLibBuffers, errors |-> errors,
              inheritedMacros |-> inheritedMacros]

EmptyLoadState == [syntaxTrees |-> <<>>, singleUnitBuffers |-> <<>>,
                   deferredLibBuffers |-> <<>>, errors |-> <<>>, inheritedMacros |-> {}]

\* Faulty variant: a read error is not recorded.
HandleLoadResult_DropsError(st, result) ==
    CASE result.kind = "tree" ->
             [st EXCEPT !.syntaxTrees = Append(st.syntaxTrees, result.tree)]
      [] result.kind = "buffer" ->
             IF result.isDeferredLib
             THEN [st EXCEPT !.deferredLibBuffers = Append(st.deferredLibBuffers, result.buffer)]
             ELSE [st EXCEPT !.singleUnitBuffers = Append(st.singleUnitBuffers, result.buffer)]
      [] result.kind = "error" -> st

\* handleLoadResult(result)
HandleLoadResult(st, result) ==
    CASE result.kind = "tree" ->
             [st EXCEPT !.syntaxTrees = Append(st.syntaxTrees, result.tree)]
      [] result.kind = "buffer" ->
             IF result.isDeferredLib
             THEN [st EXCEPT !.deferredLibBuffers = Append(st.deferredLibBuffers, result.buffer)]
             ELSE [st EXCEPT !.singleUnitBuffers = Append(st.singleUnitBuffers, result.buffer)]
      [] result.kind = "error" ->
             [st EXCEPT !.errors = Append(st.errors, ErrorRecord(result.path))]

\* Faulty variant: the single-unit tree is put in front of the trees parsed so far.
ParseSingleUnit_InFront(st, buffers, srcOptions) ==
    IF buffers # <<>>
    THEN LET tree == SyntaxTree(buffers, srcOptions.onlyLint, {})
         IN [st EXCEPT !.syntaxTrees = <<tree>> \o st.syntaxTrees,
                       !.inheritedMacros = DefinedMacros(tree)]
    ELSE st

\* parseSingleUnit(buffers)
ParseSingleUnit(st, buffers, srcOptions) ==
    IF buffers # <<>>
    THEN LET tree == SyntaxTree(buffers, srcOptions.onlyLint, {})
         IN [st EXCEPT !.syntaxTrees = Append(st.syntaxTrees, tree),
                       !.inheritedMacros = DefinedMacros(tree)]
    ELSE st

\* The parse of a deferred library buffer: fromBuffer with the inherited
\* macros, then tree->isLibrary = true.
ParseDeferred(buffer, inherited) == SyntaxTree(<<buffer>>, TRUE, inherited)

SetLoadState(st) ==
    /\ syntaxTrees' = st.syntaxTrees
    /\ singleUnitBuffers' = st.singleUnitBuffers
    /\ deferredLibBuffers' = st.deferredLibBuffers
    /\ errors' = st.errors
    /\ inheritedMacros' = st.inheritedMacros

\* ------------------------------------------------------------------------
\* loadAndParseSources: the choice of the path
\* ------------------------------------------------------------------------

\* fileEntries.size() >= MinFilesForThreading && srcOptions.numThreads != 1u
UseThreadPool == Len(fileEntries) >= MinFilesForThreading /\ options.numThreads # 1

\* ThreadPool::pushLoop(first, last, loop): the index range is cut into one
\* block per pool thread (one block per index when there are fewer indices
\* than threads); each block is one task that runs its indices in order.
PushLoop(first, last) ==
    LET total == last - first
        size == IF total \div PoolThreads = 0 THEN 1 ELSE total \div PoolThreads
        count == IF total \div PoolThreads = 0 THEN total ELSE PoolThreads
    IN [b \in 1..count |->
           [start |-> first + (b - 1) * size,
            end |-> IF b = count THEN last ELSE first + b * size,
            next |-> first + (b - 1) * size]]

\* threadPool.waitForAll() returns: every task has run to its end.
AllTasksDone == \A b \in 1..Len(blocks) : blocks[b].next = blocks[b].end

Begin ==
    /\ UNCHANGED moreVars
    /\ pc = "start"
    /\ IF UseThreadPool
       THEN /\ loadResults' = [i \in 1..Len(fileEntries) |-> NoResult]
            /\ blocks' = PushLoop(0, Len(fileEntries))
            /\ pc' = "poolLoad"
       ELSE /\ pc' = "seqLoad"
            /\ UNCHANGED <<loadResults, blocks>>
    /\ cursor' = 0
    /\ UNCHANGED <<fileEntries, fileIndex, libraries, errors, libraryMapTrees, regs,
                   options, readable, syntaxTrees, singleUnitBuffers, deferredLibBuffers,
                   inheritedMacros, numTrees>>

\* ------------------------------------------------------------------------
\* loadAndParseSources: the sequential path
\* ------------------------------------------------------------------------

\* for (auto& entry : fileEntries) handleLoadResult(loadAndParse(entry, ...)):
\* one iteration. An entry that violates the assertion stops a build with
\* assertions and goes on as a deferred library buffer in a build without.
SeqLoadStep ==
    /\ UNCHANGED moreVars
    /\ pc = "seqLoad"
    /\ cursor < Len(fileEntries)
    /\ LET entry == fileEntries[cursor + 1]
       IN \/ /\ SetLoadState(HandleLoadResult(LoadState, LoadAndParse(entry, options)))
             /\ cursor' = cursor + 1
             /\ pc' = pc
          \/ /\ AssertFails(entry, options)
             /\ pc' = "assertFailed"
             /\ UNCHANGED <<syntaxTrees, singleUnitBuffers, deferredLibBuffers, errors,
                            inheritedMacros, cursor>>
    /\ UNCHANGED <<fileEntries, fileIndex, libraries, libraryMapTrees, regs, options,
                   readable, loadResults, blocks, numTrees>>

\* parseSingleUnit(singleUnitBuffers) after the loop.
SeqParseSingleUnit ==
    /\ UNCHANGED moreVars
    /\ pc = "seqLoad"
    /\ cursor = Len(fileEntries)
    /\ SetLoadState(ParseSingleUnit(LoadState, singleUnitBuffers, options))
    /\ pc' = "seqDeferred"
    /\ cursor' = 0
    /\ UNCHANGED <<fileEntries, fileIndex, libraries, libraryMapTrees, regs, options,
                   readable, loadResults, blocks, numTrees>>

\* for (auto& buffer : deferredLibBuffers): one iteration.
SeqDeferredStep ==
    /\ UNCHANGED moreVars
    /\ pc = "seqDeferred"
    /\ cursor < Len(deferredLibBuffers)
    /\ syntaxTrees' = Append(syntaxTrees,
                             ParseDeferred(deferredLibBuffers[cursor + 1], inheritedMacros))
    /\ cursor' = cursor + 1
    /\ UNCHANGED <<fileEntries, fileIndex, libraries, errors, libraryMapTrees, regs,
                   options, readable, pc, singleUnitBuffers, deferredLibBuffers,
                   inheritedMacros, loadResults, blocks, numTrees>>

SeqFinish ==
    /\ UNCHANGED moreVars
    /\ pc = "seqDeferred"
    /\ cursor = Len(deferredLibBuffers)
    /\ pc' = "parsed"
    /\ UNCHANGED <<fileEntries, fileIndex, libraries, errors, libraryMapTrees, regs,
                   options, readable, syntaxTrees, singleUnitBuffers, deferredLibBuffers,
                   inheritedMacros, loadResults, cursor, blocks, numTrees>>

\* ------------------------------------------------------------------------
\* loadAndParseSources: the thread-pool path
\* ------------------------------------------------------------------------

\* Faulty variant: a worker puts its result into the first slot still empty.
StoreLoadResult_FirstFree(results, i, result) ==
    LET free == Min({k \in 1..Len(results) : results[k] = NoResult} \cup {Len(results)})
    IN [results EXCEPT ![free] = result]

\* loadResults[i] = loadAndParse(fileEntries[i], optionBag, srcOptions)
StoreLoadResult(results, i, result) == [results EXCEPT ![i + 1] = result]

\* Faulty variant: the tree goes to slot i, without the offset numTrees.
StoreDeferredTree_NoOffset(trees, i, offset, tree) == [trees EXCEPT ![i + 1] = tree]

\* syntaxTrees[i + numTrees] = std::move(tree)
StoreDeferredTree(trees, i, offset, tree) == [trees EXCEPT ![i + offset + 1] = tree]

\* One iteration of a task of the first pushLoop, run by a pool thread.
PoolLoadStep(b) ==
    /\ UNCHANGED moreVars
    /\ pc = "poolLoad"
    /\ blocks[b].next < blocks[b].end
    /\ LET i == blocks[b].next
           entry == fileEntries[i + 1]
       IN \/ /\ loadResults' = StoreLoadResult(loadResults, i, LoadAndParse(entry, options))
             /\ blocks' = [blocks EXCEPT ![b].next = i + 1]
             /\ pc' = pc
          \/ /\ AssertFails(entry, options)
             /\ pc' = "assertFailed"
             /\ UNCHANGED <<loadResults, blocks>>
    /\ UNCHANGED <<fileEntries, fileIndex, libraries, errors, libraryMapTrees, regs,
                   options, readable, syntaxTrees, singleUnitBuffers, deferredLibBuffers,
                   inheritedMacros, cursor, numTrees>>

\* for (auto&& result : loadResults) handleLoadResult(std::move(result))
RECURSIVE HandleLoadResults(_, _)
HandleLoadResults(st, results) ==
    IF results = <<>> THEN st
    ELSE HandleLoadResults(HandleLoadResult(st, Head(results)), Tail(results))

\* After the first waitForAll: the merge of the results on the calling
\* thread, parseSingleUnit, and the resize and second pushLoop when library
\* buffers were deferred.
PoolMerge ==
    /\ UNCHANGED moreVars
    /\ pc = "poolLoad"
    /\ AllTasksDone
    /\ LET merged == HandleLoadResults(LoadState, loadResults)
           st == ParseSingleUnit(merged, merged.singleUnitBuffers, options)
           count == Len(st.deferredLibBuffers)
       IN IF count > 0
          THEN /\ SetLoadState([st EXCEPT !.syntaxTrees =
                                   st.syntaxTrees \o [k \in 1..count |-> NoTree]])
               /\ numTrees' = Len(st.syntaxTrees)
               /\ blocks' = PushLoop(0, count)
               /\ pc' = "poolDeferred"
          ELSE /\ SetLoadState(st)
               /\ pc' = "parsed"
               /\ UNCHANGED <<numTrees, blocks>>
    /\ UNCHANGED <<fileEntries, fileIndex, libraries, libraryMapTrees, regs, options,
                   readable, loadResults, cursor>>

\* One iteration of a task of the second pushLoop, run by a pool thread.
PoolDeferredStep(b) ==
    /\ UNCHANGED moreVars
    /\ pc = "poolDeferred"
    /\ blocks[b].next < blocks[b].end
    /\ LET i == blocks[b].next
       IN /\ syntaxTrees' = StoreDeferredTree(syntaxTrees, i, numTrees,
                                ParseDeferred(deferredLibBuffers[i + 1], inheritedMacros))
          /\ blocks' = [blocks EXCEPT ![b].next = i + 1]
    /\ UNCHANGED <<fileEntries, fileIndex, libraries, errors, libraryMapTrees, regs,
                   options, readable, pc, singleUnitBuffers, deferredLibBuffers,
                   inheritedMacros, loadResults, cursor, numTrees>>

\* The second waitForAll returns.
PoolFinish ==
    /\ UNCHANGED moreVars
    /\ pc = "poolDeferred"
    /\ AllTasksDone
    /\ pc' = "parsed"
    /\ UNCHANGED <<fileEntries, fileIndex, libraries, errors, libraryMapTrees, regs,
                   options, readable, syntaxTrees, singleUnitBuffers, deferredLibBuffers,
                   inheritedMacros, loadResults, cursor, blocks, numTrees>>

\* ------------------------------------------------------------------------
\* Runs of loadAndParseSources over a registry
\* ------------------------------------------------------------------------

\* The registry when loadAndParseSources is called: up to MaxFiles entries,
\* each registered directly (addFiles) or as a library file without a
\* library name (addLibraryFiles with an empty name).
InitLoad ==
    /\ \E n \in 0..MaxFiles, libFiles \in SUBSET (1..MaxFiles) :
           /\ libFiles \subseteq 1..n
           /\ fileEntries = [i \in 1..n |->
                                NewFileEntry(FileNames[i], i \in libFiles, NoLib, 0)]
           /\ fileIndex = [p \in {FileNames[i] : i \in 1..n} |->
                              (CHOOSE i \in 1..n : FileNames[i] = p) - 1]
           /\ readable \in SUBSET {FileNames[i] : i \in 1..n}
    /\ options \in [singleUnit : BOOLEAN, librariesInheritMacros : BOOLEAN,
                    onlyLint : BOOLEAN, numThreads : {1, PoolThreads}]
    /\ InitMoreIdle
    /\ libraries = {}
    /\ errors = <<>>
    /\ libraryMapTrees = <<>>
    /\ regs = <<>>
    /\ pc = "start"
    /\ syntaxTrees = <<>>
    /\ singleUnitBuffers = <<>>
    /\ deferredLibBuffers = <<>>
    /\ inheritedMacros = {}
    /\ loadResults = <<>>
    /\ cursor = 0
    /\ blocks = <<>>
    /\ numTrees = 0

PoolLoad == \E b \in 1..Len(blocks) : PoolLoadStep(b)

PoolDeferred == \E b \in 1..Len(blocks) : PoolDeferredStep(b)

NextLoad ==
    \/ Begin
    \/ SeqLoadStep
    \/ SeqParseSingleUnit
    \/ SeqDeferredStep
    \/ SeqFinish
    \/ PoolLoad
    \/ PoolDeferred
    \/ PoolMerge
    \/ PoolFinish

SpecLoad == InitLoad /\ [][NextLoad]_vars

\* ------------------------------------------------------------------------
\* Properties of the file registry
\* ------------------------------------------------------------------------

\* The registrations of path p, in the order they were made.
RegsOf(p) == SelectSeq(regs, LAMBDA r : r.path = p)

\* The registrations of path p that name a library.
LibRegsOf(p) == SelectSeq(regs, LAMBDA r : r.path = p /\ r.library # NoLib)

\* The entry of a registered path.
EntryOf(p) == fileEntries[fileIndex[p] + 1]

Registered == DOMAIN fileIndex

\* C1: registering a path twice with the same (isLibraryFile, library, rank)
\* leaves one FileEntry for it, equal to the entry a single registration
\* makes: same flag, library and rank, and secondLib unset.
C1_DedupIdempotent ==
    \A p \in Registered :
        LET h == RegsOf(p)
        IN (Len(h) = 2 /\ h[1] = h[2]) =>
               /\ Cardinality({i \in 1..Len(fileEntries) : fileEntries[i].path = p}) = 1
               /\ EntryOf(p) = NewFileEntry(p, h[1].isLibraryFile, h[1].library, h[1].rank)

\* C2: for a path registered exactly twice, with distinct non-null libraries
\* A (rank rA) then B (rank rB): rB < rA gives library B, rank rB and no tie;
\* rB = rA gives library A with secondLib B; rB > rA leaves A, rA, no tie.
C2_LibraryPrecedence ==
    \A p \in Registered :
        LET h == RegsOf(p)
            e == EntryOf(p)
        IN (Len(h) = 2 /\ h[1].library # NoLib /\ h[2].library # NoLib
                /\ h[1].library # h[2].library) =>
               CASE h[2].rank < h[1].rank ->
                        /\ e.library = h[2].library
                        /\ e.libraryRank = h[2].rank
                        /\ e.secondLib = NoLib
                 [] h[2].rank = h[1].rank ->
                        /\ e.library = h[1].library
                        /\ e.libraryRank = h[1].rank
                        /\ e.secondLib = h[2].library
                 [] h[2].rank > h[1].rank ->
                        /\ e.library = h[1].library
                        /\ e.libraryRank = h[1].rank
                        /\ e.secondLib = NoLib

\* A path registered by library A and then overruled by library B at a lower rank.
C2_Witness ==
    \E p \in Registered :
        LET h == RegsOf(p)
        IN /\ Len(h) = 2 /\ h[1].library = "A" /\ h[2].library = "B"
           /\ h[2].rank < h[1].rank
           /\ EntryOf(p).library = "B"

\* C3: for every entry with at least one registration that names a library,
\* libraryRank is the minimum rank over those registrations and library is
\* the library of the earliest registration made at that minimum rank.
C3_LowestRankLibrary ==
    \A p \in Registered :
        LET h == LibRegsOf(p)
            e == EntryOf(p)
        IN Len(h) > 0 =>
               LET lowest == Min({h[i].rank : i \in 1..Len(h)})
                   first == Min({i \in 1..Len(h) : h[i].rank = lowest})
               IN e.libraryRank = lowest /\ e.library = h[first].library

\* Three library registrations of one path: the second overrules the first,
\* the third ties with the second under another library.
C3_Witness ==
    \E p \in Registered :
        LET h == LibRegsOf(p)
        IN /\ Len(h) = 3
           /\ h[2].rank < h[1].rank /\ h[3].rank = h[2].rank
           /\ h[1].library # h[2].library /\ h[3].library # h[2].library
           /\ EntryOf(p).library = h[2].library

\* C4: a recorded tie does not outlive the rank it was recorded at: when
\* secondLib is set, some registration of secondLib for the path was made at
\* the entry's current libraryRank.
C4_TieClearedOnOverrule ==
    \A p \in Registered :
        LET h == RegsOf(p)
            e == EntryOf(p)
        IN e.secondLib # NoLib =>
               \E i \in 1..Len(h) :
                   h[i].library = e.secondLib /\ h[i].rank = e.libraryRank

\* C5: secondLib, when set, is a library other than the entry's library.
C5_SecondLibDiffers ==
    \A i \in 1..Len(fileEntries) :
        fileEntries[i].secondLib # NoLib =>
            fileEntries[i].secondLib # fileEntries[i].library

\* C6: an entry is a library file only if every registration of its path was
\* a library registration: one direct registration, made at any point, makes
\* the entry a non-library file in every later state.
C6_DirectWins ==
    \A p \in Registered :
        LET h == RegsOf(p)
        IN EntryOf(p).isLibraryFile => \A i \in 1..Len(h) : h[i].isLibraryFile

\* A path registered as a library file, then directly, then as a library file again.
C6_Witness ==
    \E p \in Registered :
        LET h == RegsOf(p)
        IN /\ Len(h) = 3
           /\ h[1].isLibraryFile /\ ~h[2].isLibraryFile /\ h[3].isLibraryFile
           /\ ~EntryOf(p).isLibraryFile

\* ------------------------------------------------------------------------
\* Properties of loadAndParseSources
\* ------------------------------------------------------------------------

\* The entry of the file a buffer was read from.
EntryOfBuffer(buffer) == fileEntries[fileIndex[buffer] + 1]

\* The buffers held as deferred library buffers, merged or still in a slot
\* of loadResults.
DeferredLibSeen ==
    Range(deferredLibBuffers)
        \cup {loadResults[i].buffer : i \in {k \in 1..Len(loadResults) :
                  loadResults[k].kind = "buffer" /\ loadResults[k].isDeferredLib}}

\* C7: the deferral branch of loadAndParse is reached only for library
\* entries: the assertion entry.isLibraryFile never fails, and no buffer of a
\* direct file is deferred as a macro-inheriting library buffer.
C7_DeferralOnlyForLibraryFiles ==
    /\ pc # "assertFailed"
    /\ \A buffer \in DeferredLibSeen : EntryOfBuffer(buffer).isLibraryFile

\* The sequential path of loadAndParseSources, run from the entry of the
\* function: the loop over the entries, parseSingleUnit, the deferred loop.
RECURSIVE SequentialLoad(_, _), SequentialDeferred(_, _)
SequentialLoad(st, i) ==
    IF i > Len(fileEntries) THEN st
    ELSE SequentialLoad(HandleLoadResult(st, LoadAndParse(fileEntries[i], options)), i + 1)

SequentialDeferred(st, i) ==
    IF i > Len(st.deferredLibBuffers) THEN st
    ELSE SequentialDeferred(
             [st EXCEPT !.syntaxTrees =
                 Append(st.syntaxTrees,
                        ParseDeferred(st.deferredLibBuffers[i], st.inheritedMacros))],
             i + 1)

SequentialOutcome ==
    LET loaded == SequentialLoad(EmptyLoadState, 1)
    IN SequentialDeferred(ParseSingleUnit(loaded, loaded.singleUnitBuffers, options), 1)

\* C8: when loadAndParseSources has parsed the registered files, the tree
\* list and the error list are those of the sequential path on the same
\* registry, options and files, whichever path ran and however the pool
\* scheduled its tasks.
C8_ThreadingSameOutput ==
    pc = "parsed" =>
        /\ syntaxTrees = SequentialOutcome.syntaxTrees
        /\ errors = SequentialOutcome.errors

\* A finished thread-pool run with a read error, a single unit and two
\* deferred library buffers.
C8_Witness ==
    /\ pc = "parsed"
    /\ UseThreadPool
    /\ errors # <<>>
    /\ singleUnitBuffers # <<>>
    /\ Len(deferredLibBuffers) >= 2

\* The phase of an entry's file: 0 unread, 1 parsed immediately, 2 part of
\* the single unit, 3 deferred to inherit macros.
PhaseOf(entry) ==
    IF entry.path \notin readable THEN 0
    ELSE IF ~entry.isLibraryFile /\ options.singleUnit THEN 2
    ELSE IF options.librariesInheritMacros THEN 3
    ELSE 1

\* The paths of the entries of a phase, in registry order.
PathsOfPhase(phase) ==
    LET picked == SelectSeq(fileEntries, LAMBDA e : PhaseOf(e) = phase)
    IN [i \in 1..Len(picked) |-> picked[i].path]

\* The buffer lists of the trees the claimed order gives.
ExpectedTreeBuffers ==
    [i \in 1..Len(PathsOfPhase(1)) |-> <<PathsOfPhase(1)[i]>>]
        \o (IF PathsOfPhase(2) # <<>> THEN <<PathsOfPhase(2)>> ELSE <<>>)
        \o [i \in 1..Len(PathsOfPhase(3)) |-> <<PathsOfPhase(3)[i]>>]

\* The trees of the list that are filled in.
FilledTrees == {i \in 1..Len(syntaxTrees) : syntaxTrees[i] # NoTree}

\* C9: the result holds the immediately parsed trees in registry order, then
\* the single-unit tree if a direct buffer was deferred, then one tree per
\* deferred library buffer in registry order; and at no point does a deferred
\* tree precede the single-unit tree or an immediate tree follow it.
C9_PhaseOrder ==
    /\ pc = "parsed" =>
           [i \in 1..Len(syntaxTrees) |-> syntaxTrees[i].buffers] = ExpectedTreeBuffers
    /\ \A i, j \in FilledTrees :
           i < j => PhaseOf(EntryOfBuffer(syntaxTrees[i].buffers[1]))
                        <= PhaseOf(EntryOfBuffer(syntaxTrees[j].buffers[1]))

\* A finished run whose single-unit tree comes before two deferred library
\* trees although a library entry is registered before the direct entries.
C9_Witness ==
    /\ pc = "parsed"
    /\ Len(fileEntries) >= 3
    /\ PhaseOf(fileEntries[1]) = 3
    /\ PhaseOf(fileEntries[2]) = 2
    /\ Len(PathsOfPhase(3)) >= 2
    /\ syntaxTrees[1].buffers = PathsOfPhase(2)

\* The trees of the list that hold a buffer of a direct entry.
TreesOfDirectFiles ==
    {i \in FilledTrees :
        \E k \in 1..Len(syntaxTrees[i].buffers) :
            ~EntryOfBuffer(syntaxTrees[i].buffers[k]).isLibraryFile}

\* The readable direct entries' paths, in registry order.
ReadableDirectPaths ==
    LET picked == SelectSeq(fileEntries,
                            LAMBDA e : ~e.isLibraryFile /\ e.path \in readable)
    IN [i \in 1..Len(picked) |-> picked[i].path]

\* C10: in single-unit mode at most one tree ever holds buffers of direct
\* entries; in the result there is exactly one when some direct entry is
\* readable, made of all readable direct entries' buffers in registry order,
\* and none when no direct entry is readable.
C10_SingleUnitConcatenation ==
    options.singleUnit =>
        /\ Cardinality(TreesOfDirectFiles) <= 1
        /\ pc = "parsed" =>
               IF ReadableDirectPaths = <<>>
               THEN TreesOfDirectFiles = {}
               ELSE \E i \in 1..Len(syntaxTrees) :
                        /\ TreesOfDirectFiles = {i}
                        /\ syntaxTrees[i].buffers = ReadableDirectPaths

\* A finished single-unit run over three readable direct files and a library file.
C10_Witness ==
    /\ pc = "parsed"
    /\ options.singleUnit
    /\ Len(ReadableDirectPaths) = 3
    /\ \E i \in 1..Len(fileEntries) : fileEntries[i].isLibraryFile
    /\ \E i \in 1..Len(syntaxTrees) : syntaxTrees[i].buffers = ReadableDirectPaths

\* The macros defined by the readable direct files of the registry.
DirectMacros ==
    UNION {MacrosOf(fileEntries[i].path) :
              i \in {k \in 1..Len(fileEntries) :
                        ~fileEntries[k].isLibraryFile /\ fileEntries[k].path \in readable}}

\* The trees parsed from the one buffer of a registered library file.
LibraryFileTrees ==
    {i \in FilledTrees :
        /\ Len(syntaxTrees[i].buffers) = 1
        /\ syntaxTrees[i].buffers[1] \in DOMAIN fileIndex
        /\ EntryOfBuffer(syntaxTrees[i].buffers[1]).isLibraryFile}

\* C11: in the result, with librariesInheritMacros on every registered
\* library file was parsed with an inherited macro set that holds the macros
\* the direct files define, with singleUnit on or off; with
\* librariesInheritMacros off it was parsed with no inherited macros.
C11_MacroInheritance ==
    pc = "parsed" =>
        \A i \in LibraryFileTrees :
            IF options.librariesInheritMacros
            THEN DirectMacros \subseteq syntaxTrees[i].inherited
            ELSE syntaxTrees[i].inherited = {}

\* The paths of the entries that can (or cannot) be read, in registry order.
PathsReadable(canRead) ==
    LET picked == SelectSeq(fileEntries, LAMBDA e : (e.path \in readable) = canRead)
    IN [i \in 1..Len(picked) |-> picked[i].path]

\* C12: with singleUnit and librariesInheritMacros off, N entries of which k
\* cannot be read give N - k trees, one per readable entry in registry order,
\* and k error records, one for the path of each unreadable entry.
C12_ErrorAccumulation ==
    (pc = "parsed" /\ ~options.singleUnit /\ ~options.librariesInheritMacros) =>
        /\ [i \in 1..Len(syntaxTrees) |-> syntaxTrees[i].buffers]
               = [i \in 1..Len(PathsReadable(TRUE)) |-> <<PathsReadable(TRUE)[i]>>]
        /\ Len(errors) = Len(PathsReadable(FALSE))
        /\ {errors[i].what : i \in 1..Len(errors)} = Range(PathsReadable(FALSE))

\* A finished run over four entries whose second cannot be read: three trees
\* and one error record.
C12_Witness ==
    /\ pc = "parsed"
    /\ ~options.singleUnit /\ ~options.librariesInheritMacros
    /\ Len(fileEntries) = 4
    /\ PathsReadable(FALSE) = <<FileNames[2]>>
    /\ Len(syntaxTrees) = 3
    /\ Len(errors) = 1

\* ---------------------------------------------------------------------------
\* The public operations of one loader, called in any order
\* ---------------------------------------------------------------------------

SearchDirs == {"d1", "d2"}

\* What svGlob(basePath, pattern, GlobMode::Directories, ...) can leave behind.
DirGlobOutcomes ==
    [pattern : {"dirs"}, files : NoDupSeqs(SearchDirs, 2), ec : {FALSE}]
        \cup [pattern : {"dirs"}, files : NoDupSeqs(SearchDirs, 1), ec : {TRUE}]

\* Room left in the records the runs keep.
LogRoom == MaxLog - (Len(regs) + Len(errors) + Len(libraryMapTrees) + Len(searchDirectories))

\* addSearchDirectories(pattern), for a pattern svGlob expands to glob.
AddSearchDirectoriesWith(glob) ==
    /\ IF glob.ec
       THEN /\ LogRoom >= 1
            /\ errors' = Append(errors, ErrorRecord(glob.pattern))
            /\ UNCHANGED searchDirectories
       ELSE /\ LogRoom >= Len(glob.files)
            /\ searchDirectories' = searchDirectories \o glob.files
            /\ UNCHANGED errors
    /\ UNCHANGED <<fileEntries, fileIndex, libraries, libraryMapTrees, regs, loadVars,
                   searchExtensions, uniqueExtensions, extAdds, discVars, mapVars, paramVars>>

AddSearchDirectories == \E glob \in DirGlobOutcomes : AddSearchDirectoriesWith(glob)

\* Faulty variant: the error list holds the failures of this call only.
LoadSourcesErrors_Fresh(errs, i) ==
    [k \in 1..Cardinality({j \in i..Len(fileEntries) : fileEntries[j].path \notin readable})
        |-> ErrorRecord(fileEntries[
                CHOOSE j \in i..Len(fileEntries) :
                    /\ fileEntries[j].path \notin readable
                    /\ Cardinality({l \in i..j : fileEntries[l].path \notin readable}) = k
            ].path)]

\* The loop of loadSources over entries i.. : a failed read appends a record.
RECURSIVE LoadSourcesErrors(_, _)
LoadSourcesErrors(errs, i) ==
    IF i > Len(fileEntries) THEN errs
    ELSE LoadSourcesErrors(
             IF fileEntries[i].path \in readable THEN errs
             ELSE Append(errs, ErrorRecord(fileEntries[i].path)),
             i + 1)

\* loadSources(): the buffers go to the caller, the failures to errors.
LoadSources ==
    /\ errors' = LoadSourcesErrors(errors, 1)
    /\ Len(errors') - Len(errors) <= LogRoom
    /\ UNCHANGED <<fileEntries, fileIndex, libraries, libraryMapTrees, regs, loadVars, moreVars>>

\* loadAndParseSources(optionBag) as one call. The trees go to the caller; of
\* the loader only errors changes. The registries of these runs have fewer
\* than MinFilesForThreading entries, so the files are loaded in order.
LoadAndParseSourcesCall ==
    /\ errors' = SequentialLoad([EmptyLoadState EXCEPT !.errors = errors], 1).errors
    /\ Len(errors') - Len(errors) <= LogRoom
    /\ UNCHANGED <<fileEntries, fileIndex, libraries, libraryMapTrees, regs, loadVars, moreVars>>

\* One loader over a file system where f2.sv can be read and f1.sv cannot.
InitApi ==
    /\ InitMoreIdle
    /\ fileEntries = <<>>
    /\ fileIndex = <<>>
    /\ libraries = {}
    /\ errors = <<>>
    /\ libraryMapTrees = <<>>
    /\ regs = <<>>
    /\ options = [singleUnit |-> FALSE, librariesInheritMacros |-> FALSE,
                  onlyLint |-> FALSE, numThreads |-> 1]
    /\ readable = {FileNames[2]}
    /\ pc = "idle"
    /\ syntaxTrees = <<>>
    /\ singleUnitBuffers = <<>>
    /\ deferredLibBuffers = <<>>
    /\ inheritedMacros = {}
    /\ loadResults = <<>>
    /\ cursor = 0
    /\ blocks = <<>>
    /\ numTrees = 0

\* The library map globs of these runs: the failed globs, the unreadable
\* document and the documents that declare library A from a glob that works.
ApiMapInputs ==
    {g \in MapInputs :
        \/ g.ec
        \/ g.files[1].members = <<>>
        \/ /\ g.files[1].members[1].kind = "LibraryDeclaration"
           /\ g.files[1].members[1].name = "A"
           /\ ~g.files[1].members[1].filePaths[1].glob.ec}

AddLibraryMapsApi == \E glob \in ApiMapInputs : AddLibraryMapsWith(glob)

NextApi ==
    \/ AddFiles
    \/ AddLibraryFiles
    \/ AddLibraryMapsApi
    \/ AddSearchDirectories
    \/ LoadSources
    \/ LoadAndParseSourcesCall

SpecApi == InitApi /\ [][NextApi]_vars

IsPrefix(a, b) == Len(a) <= Len(b) /\ SubSeq(b, 1, Len(a)) = a

\* C13: no operation of the loader removes or reorders error records; every
\* step leaves the old error list as a prefix of the new one.
C13_ErrorsAppendOnly == [][IsPrefix(errors, errors')]_vars

\* The record of a failed read followed by the record of a failed pattern
\* of a later call.
C13_Witness ==
    errors = <<ErrorRecord(FileNames[1]), ErrorRecord("pat")>>

\* What a failed pattern expansion leaves behind.
FailedGlobEffect(pattern) ==
    /\ errors' = Append(errors, ErrorRecord(pattern))
    /\ UNCHANGED <<fileEntries, fileIndex, searchDirectories, libraryMapTrees>>

\* The registry a later registration of both files would produce is the
\* same before and after the step.
LaterCallsAgree ==
    \A glob \in {g \in GlobOutcomes : ~g.ec /\ Len(g.files) = 2},
       lib \in {[isLibraryFile |-> FALSE, library |-> NoLib],
                [isLibraryFile |-> TRUE, library |-> LibraryOf("A")]} :
        LET before == AddFilesInternal(RegState, glob, lib.isLibraryFile, lib.library)
            after == AddFilesInternal(RegState', glob, lib.isLibraryFile, lib.library)
        IN /\ before.fileEntries = after.fileEntries
           /\ before.fileIndex = after.fileIndex

\* C18: addFiles, addLibraryFiles, addSearchDirectories or addLibraryMaps with
\* a pattern whose expansion fails appends one error record naming the
\* pattern and changes none of fileEntries, fileIndex, searchDirectories and
\* libraryMapTrees, so a later registration call does what it would have done
\* without the failed call.
C18_GlobFailure ==
    [][ /\ \A glob \in {g \in GlobOutcomes : g.ec} :
              (AddFilesWith(glob) \/ \E libName \in LibNames : AddLibraryFilesWith(libName, glob))
                  => FailedGlobEffect(glob.pattern) /\ LaterCallsAgree
        /\ \A glob \in {g \in DirGlobOutcomes : g.ec} :
              AddSearchDirectoriesWith(glob) => FailedGlobEffect(glob.pattern)
        /\ \A glob \in {g \in ApiMapInputs : g.ec} :
              AddLibraryMapsWith(glob) => FailedGlobEffect(glob.pattern) ]_vars

\* A failed pattern has been recorded and two registrations and a search
\* directory stand next to it.
C18_Witness ==
    /\ errors = <<ErrorRecord("pat")>>
    /\ Len(fileEntries) = 1
    /\ Len(searchDirectories) = 1

\* ---------------------------------------------------------------------------
\* The search extensions
\* ---------------------------------------------------------------------------

MaxExtCalls == 3

Extensions == {".v", ".sv", ".vh", ".svh", ".x"}

\* widen(str): the same characters as a path.
Widen(str) == str

\* Faulty variant: the result of the emplace is not looked at.
SearchExtensionsAfter_NoCheck(exts, unique, extension) ==
    Append(exts, Widen(extension))

\* searchExtensions after addSearchExtension(extension).
SearchExtensionsAfter(exts, unique, extension) ==
    IF extension \notin unique THEN Append(exts, Widen(extension)) ELSE exts

\* addSearchExtension(extension)
AddSearchExtension ==
    \E extension \in Extensions :
        /\ Len(extAdds) < MaxExtCalls
        /\ searchExtensions' = SearchExtensionsAfter(searchExtensions, uniqueExtensions, extension)
        /\ uniqueExtensions' = uniqueExtensions \cup {extension}
        /\ extAdds' = Append(extAdds, extension)
        /\ UNCHANGED <<regVars, loadVars, searchDirectories, discVars, mapVars, paramVars>>

\* The constructor copies the two defaults out of a hash set, in the order
\* the set iterates.
InitExt ==
    /\ uniqueExtensions = {".v", ".sv"}
    /\ searchExtensions \in {<<Widen(".v"), Widen(".sv")>>, <<Widen(".sv"), Widen(".v")>>}
    /\ extAdds = <<>>
    /\ searchDirectories = <<>>
    /\ cached = {}
    /\ knownNames = {}
    /\ missingNames = {}
    /\ nextMissingNames = {}
    /\ pending = {}
    /\ round = 0
    /\ examined = {}
    /\ mapStack = <<>>
    /\ InitParamIdle
    /\ mapFiles = <<>>
    /\ fileEntries = <<>>
    /\ fileIndex = <<>>
    /\ libraries = {}
    /\ errors = <<>>
    /\ libraryMapTrees = <<>>
    /\ regs = <<>>
    /\ InitLoadIdle

NextExt == AddSearchExtension

SpecExt == InitExt /\ [][NextExt]_vars

\* The extensions of adds in the order of their first appearance, leaving
\* out those in seen.
RECURSIVE FirstAdditions(_, _)
FirstAdditions(adds, seen) ==
    IF adds = <<>> THEN <<>>
    ELSE IF Head(adds) \in seen THEN FirstAdditions(Tail(adds), seen)
    ELSE <<Widen(Head(adds))>> \o FirstAdditions(Tail(adds), seen \cup {Head(adds)})

\* C20: the extension list holds .v and .sv, holds every extension ever
\* added, holds nothing twice, and after the two defaults lists the added
\* extensions in the order of their first addition.
C20_ExtensionList ==
    /\ {Widen(".v"), Widen(".sv")} = Range(SubSeq(searchExtensions, 1, 2))
    /\ {Widen(e) : e \in Range(extAdds)} \subseteq Range(searchExtensions)
    /\ Cardinality(Range(searchExtensions)) = Len(searchExtensions)
    /\ SubSeq(searchExtensions, 3, Len(searchExtensions))
           = FirstAdditions(extAdds, {".v", ".sv"})

\* A new extension added twice around a default one.
C20_Witness ==
    /\ extAdds = <<".vh", ".v", ".vh">>
    /\ searchExtensions = <<Widen(".sv"), Widen(".v"), Widen(".vh")>>

\* ---------------------------------------------------------------------------
\* loadAndParseSources: the search for missing names in the search directories
\* ---------------------------------------------------------------------------

\* A name is the sequence of the parts its text has between dots: a simple
\* identifier has one part, the escaped identifier \p.q has two.
RECURSIVE JoinDots(_)
JoinDots(parts) ==
    IF Len(parts) = 1 THEN parts[1] ELSE parts[1] \o "." \o JoinDots(Tail(parts))

\* fs::path path(dir); path /= name, as std::filesystem sees the result:
\* the extension of a file name starts at its last dot.
PathOver(dir, name) ==
    [dir |-> dir,
     stem |-> IF Len(name) = 1 THEN name[1] ELSE JoinDots(SubSeq(name, 1, Len(name) - 1)),
     extension |-> IF Len(name) = 1 THEN "" ELSE "." \o name[Len(name)]]

\* path.replace_extension(ext)
ReplaceExtension(path, ext) == [path EXCEPT !.extension = ext]

\* The text of a path.
PathText(path) == path.dir \o "/" \o path.stem \o path.extension

\* The files of the search directories that may exist.
SearchFiles ==
    {"d1/A.sv", "d1/B.sv", "d1/B.v", "d1/C.sv", "d2/C.v", "d1/p.q.sv"}

\* The names of the module and class declarations of a file (meta.nodeMap
\* and meta.classDecls).
Declares(path) ==
    CASE path = FileNames[1] -> { <<"top">> }
      [] path = "d1/A.sv" -> { <<"A">> }
      [] path = "d1/B.sv" -> { <<"B">> }
      [] path = "d1/B.v" -> { <<"B">>, <<"C">> }
      [] path = "d1/C.sv" -> { <<"C">>, <<"D">> }
      [] path = "d2/C.v" -> { <<"D">> }
      [] path = "d1/p.q.sv" -> { <<"p", "q">> }
      [] OTHER -> {}

\* The names a file refers to (meta.globalInstances, classPackageNames,
\* packageImports and interfacePorts).
References(path) ==
    CASE path = FileNames[1] -> { <<"A">>, <<"B">>, <<"p", "q">> }
      [] path = "d1/A.sv" -> { <<"C">>, <<"N">> }
      [] path = "d1/B.sv" -> { <<"C">> }
      [] path = "d1/C.sv" -> { <<"A">> }
      [] path = "d2/C.v" -> { <<"C">> }
      [] OTHER -> {}

\* addKnownNames(tree): the names the tree adds.
TreeDeclares(tree) == UNION {Declares(tree.buffers[i]) : i \in 1..Len(tree.buffers)}

\* The names findMissingNames(tree, missing) looks at.
TreeReferences(tree) == UNION {References(tree.buffers[i]) : i \in 1..Len(tree.buffers)}

\* findMissingNames(tree, missing): the names it adds to missing.
FindMissingNames(tree, known) == TreeReferences(tree) \ known

\* The paths the two nested loops visit for a name, in the order they visit them.
CandidatePaths(name) ==
    [k \in 1..(Len(searchDirectories) * Len(searchExtensions)) |->
        PathText(ReplaceExtension(
            PathOver(searchDirectories[((k - 1) \div Len(searchExtensions)) + 1], name),
            searchExtensions[((k - 1) % Len(searchExtensions)) + 1]))]

\* Faulty variant: the cache is not asked.
Loadable_IgnoreCache(candidates, cache) ==
    {k \in DOMAIN candidates : candidates[k] \in readable}

\* The candidates that are not cached and can be read.
Loadable(candidates, cache) ==
    {k \in DOMAIN candidates : candidates[k] \notin cache /\ candidates[k] \in readable}

\* The cache of the source manager after readSource has read path.
CacheAfterRead(cache, path) == cache \cup {path}

\* The locals of the loop and the tree list and the cache it works on.
DiscoverState ==
    [syntaxTrees |-> syntaxTrees, cached |-> cached, knownNames |-> knownNames,
     nextMissingNames |-> nextMissingNames, examined |-> examined]

\* Faulty variant: a name nothing was loaded for is looked for again in the
\* next round.
VisitName_Carry(st, name) ==
    LET candidates == CandidatePaths(name)
        loadable == Loadable(candidates, st.cached)
    IN IF loadable = {} THEN [st EXCEPT !.nextMissingNames = @ \cup {name}]
       ELSE LET path == candidates[Min(loadable)]
                tree == SyntaxTree(<<path>>, TRUE, inheritedMacros)
                known == st.knownNames \cup TreeDeclares(tree)
                missing == FindMissingNames(tree, known)
            IN [syntaxTrees |-> Append(st.syntaxTrees, tree),
                cached |-> CacheAfterRead(st.cached, path),
                knownNames |-> known,
                nextMissingNames |-> st.nextMissingNames \cup missing,
                examined |-> st.examined \cup missing]

\* The body of the loop over missingNames for one name.
VisitName(st, name) ==
    LET candidates == CandidatePaths(name)
        loadable == Loadable(candidates, st.cached)
    IN IF loadable = {} THEN st
       ELSE LET path == candidates[Min(loadable)]
                tree == SyntaxTree(<<path>>, TRUE, inheritedMacros)
                known == st.knownNames \cup TreeDeclares(tree)
                missing == FindMissingNames(tree, known)
            IN [syntaxTrees |-> Append(st.syntaxTrees, tree),
                cached |-> CacheAfterRead(st.cached, path),
                knownNames |-> known,
                nextMissingNames |-> st.nextMissingNames \cup missing,
                examined |-> st.examined \cup missing]

\* The names all trees declare, and of the names they refer to those that
\* are not among them.
KnownOfTrees(trees) == UNION {TreeDeclares(trees[i]) : i \in 1..Len(trees)}

MissingOfTrees(trees) ==
    UNION {FindMissingNames(trees[i], KnownOfTrees(trees)) : i \in 1..Len(trees)}

\* The parsing is over: without search directories the call returns, with
\* some the known and the missing names of the trees are collected.
DiscoverBegin ==
    /\ pc = "parsed"
    /\ IF searchDirectories = <<>>
       THEN /\ pc' = "returned"
            /\ UNCHANGED discVars
       ELSE /\ pc' = "discover"
            /\ knownNames' = KnownOfTrees(syntaxTrees)
            /\ missingNames' = MissingOfTrees(syntaxTrees)
            /\ pending' = MissingOfTrees(syntaxTrees)
            /\ examined' = MissingOfTrees(syntaxTrees)
            /\ nextMissingNames' = {}
            /\ round' = 1
            /\ UNCHANGED cached
    /\ UNCHANGED <<regVars, options, readable, syntaxTrees, singleUnitBuffers,
                   deferredLibBuffers, inheritedMacros, loadResults, cursor, blocks, numTrees,
                   searchDirectories, searchExtensions, uniqueExtensions, extAdds, mapVars, paramVars>>

\* One iteration of the loop over missingNames; a hash set hands out its
\* elements in an order of its own.
DiscoverName ==
    \E name \in pending :
        LET st == VisitName(DiscoverState, name)
        IN /\ pc = "discover"
           /\ pending' = pending \ {name}
           /\ syntaxTrees' = st.syntaxTrees
           /\ cached' = st.cached
           /\ knownNames' = st.knownNames
           /\ nextMissingNames' = st.nextMissingNames
           /\ examined' = st.examined
           /\ UNCHANGED <<regVars, options, readable, pc, singleUnitBuffers, deferredLibBuffers,
                          inheritedMacros, loadResults, cursor, blocks, numTrees,
                          searchDirectories, searchExtensions, uniqueExtensions, extAdds,
                          missingNames, round, mapVars, paramVars>>

\* The end of a round: leave the loop or go on with the names found.
DiscoverRoundEnd ==
    /\ pc = "discover"
    /\ pending = {}
    /\ IF nextMissingNames = {}
       THEN /\ pc' = "returned"
            /\ UNCHANGED <<missingNames, nextMissingNames, pending, round>>
       ELSE /\ missingNames' = nextMissingNames
            /\ pending' = nextMissingNames
            /\ nextMissingNames' = {}
            /\ round' = round + 1
            /\ UNCHANGED pc
    /\ UNCHANGED <<regVars, options, readable, syntaxTrees, singleUnitBuffers,
                   deferredLibBuffers, inheritedMacros, loadResults, cursor, blocks, numTrees,
                   searchDirectories, searchExtensions, uniqueExtensions, extAdds,
                   cached, knownNames, examined, mapVars, paramVars>>

\* The paths the first part of loadAndParseSources has read.
PathsRead == {fileEntries[i].path : i \in {k \in 1..Len(fileEntries) : fileEntries[k].path \in readable}}

\* The state after the registered files have been parsed under the options
\* opts on the sequential path, for every choice of search directories, of
\* the order of the default extensions and of the files that exist.
InitDiscoverFrom(entries, opts, given) ==
    /\ fileEntries = entries
    /\ fileIndex = [p \in {entries[i].path : i \in 1..Len(entries)} |->
                       (CHOOSE i \in 1..Len(entries) : entries[i].path = p) - 1]
    /\ libraries = {}
    /\ libraryMapTrees = <<>>
    /\ regs = <<>>
    /\ options = opts
    /\ \E files \in SUBSET SearchFiles : readable = given \cup files
    /\ pc = "parsed"
    /\ syntaxTrees = SequentialOutcome.syntaxTrees
    /\ errors = SequentialOutcome.errors
    /\ singleUnitBuffers = SequentialOutcome.singleUnitBuffers
    /\ deferredLibBuffers = SequentialOutcome.deferredLibBuffers
    /\ inheritedMacros = SequentialOutcome.inheritedMacros
    /\ loadResults = <<>>
    /\ cursor = 0
    /\ blocks = <<>>
    /\ numTrees = 0
    /\ searchDirectories \in {<<>>, <<"d1">>, <<"d1", "d2">>, <<"d2", "d1">>}
    /\ searchExtensions \in {<<Widen(".v"), Widen(".sv")>>, <<Widen(".sv"), Widen(".v")>>}
    /\ uniqueExtensions = {".v", ".sv"}
    /\ extAdds = <<>>
    /\ cached = PathsRead
    /\ knownNames = {}
    /\ missingNames = {}
    /\ nextMissingNames = {}
    /\ pending = {}
    /\ round = 0
    /\ examined = {}
    /\ mapStack = <<>>
    /\ InitParamIdle
    /\ mapFiles = <<>>

\* The same under the default options, f1.sv being readable.
InitDiscoverWith(entries) ==
    InitDiscoverFrom(entries,
                     [singleUnit |-> FALSE, librariesInheritMacros |-> FALSE,
                      onlyLint |-> FALSE, numThreads |-> 1],
                     {FileNames[1]})

\* The registry holds f1.sv.
InitDiscover == InitDiscoverWith(<<NewFileEntry(FileNames[1], FALSE, NoLib, 0)>>)

\* The registry holds f1.sv, alone or with d2/C.v, a file of a search
\* directory, registered directly or as a library file.
InitDiscoverReg ==
    \E entries \in {<<NewFileEntry(FileNames[1], FALSE, NoLib, 0)>>}
                    \cup {<<NewFileEntry(FileNames[1], FALSE, NoLib, 0),
                            NewFileEntry("d2/C.v", isLibraryFile, NoLib, 0)>> :
                             isLibraryFile \in BOOLEAN} :
        InitDiscoverWith(entries)

NextDiscover == DiscoverBegin \/ DiscoverName \/ DiscoverRoundEnd

SpecDiscover == InitDiscover /\ [][NextDiscover]_vars

SpecDiscoverReg == InitDiscoverReg /\ [][NextDiscover]_vars

\* The registry holds f1.sv, a direct file, and f2.sv, a library file, both
\* readable; the options are any that pass the assertion of loadAndParse.
InitDiscoverOpt ==
    \E opts \in [singleUnit : BOOLEAN, librariesInheritMacros : BOOLEAN,
                 onlyLint : BOOLEAN, numThreads : {1}] :
        /\ opts.librariesInheritMacros => opts.singleUnit
        /\ InitDiscoverFrom(<<NewFileEntry(FileNames[1], FALSE, NoLib, 0),
                              NewFileEntry(FileNames[2], TRUE, NoLib, 0)>>,
                            opts, {FileNames[1], FileNames[2]})

SpecDiscoverOpt == InitDiscoverOpt /\ [][NextDiscover]_vars

\* loadAndParseSources runs on the calling thread, which goes on as long as
\* it has a step to take.
FairDiscover == SpecDiscover /\ WF_vars(NextDiscover)

LoadedPaths == UNION {Range(syntaxTrees[i].buffers) : i \in 1..Len(syntaxTrees)}

\* <dir>/<name><ext>
NamedPath(dir, name, ext) == dir \o "/" \o JoinDots(name) \o ext

\* C15: when the loop has left, every name that was found missing and has a
\* readable file <dir>/<name><ext> in a search directory has had such a file
\* loaded and the names it declares are known; when the files of the missing
\* names A and B both refer to C and C has a file, the three files are
\* loaded within three rounds.
C15_FixpointClosure ==
    (pc = "returned" /\ searchDirectories # <<>>) =>
        /\ \A name \in examined :
              LET named == {NamedPath(dir, name, ext) :
                               dir \in Range(searchDirectories),
                               ext \in Range(searchExtensions)}
              IN named \cap readable # {}
                    => \E path \in named \cap LoadedPaths : Declares(path) \subseteq knownNames
        /\ (/\ searchDirectories[1] = "d1"
            /\ {"d1/A.sv", "d1/B.sv", "d1/C.sv"} \subseteq readable
            /\ "d1/B.v" \notin readable)
               => /\ {"d1/A.sv", "d1/B.sv", "d1/C.sv"} \subseteq LoadedPaths
                  /\ round <= 3

\* The loop state the loop starts from.
DiscoverStart ==
    [syntaxTrees |-> SequentialOutcome.syntaxTrees, cached |-> PathsRead,
     knownNames |-> KnownOfTrees(SequentialOutcome.syntaxTrees),
     nextMissingNames |-> {},
     examined |-> MissingOfTrees(SequentialOutcome.syntaxTrees)]

NameOrder == << <<"top">>, <<"A">>, <<"B">>, <<"C">>, <<"D">>, <<"N">>, <<"p", "q">> >>

\* The first name of NameOrder in a set of names.
FirstName(names) ==
    NameOrder[Min({k \in DOMAIN NameOrder : NameOrder[k] \in names})]

\* A round that visits its names in the order of NameOrder.
RECURSIVE VisitInOrder(_, _)
VisitInOrder(st, names) ==
    IF names = {} THEN st
    ELSE VisitInOrder(VisitName(st, FirstName(names)), names \ {FirstName(names)})

\* The rounds from a missing-name set on, each in the order of NameOrder.
RECURSIVE RoundsInOrder(_, _)
RoundsInOrder(st, missing) ==
    LET after == VisitInOrder([st EXCEPT !.nextMissingNames = {}], missing)
    IN IF after.nextMissingNames = {} THEN after
       ELSE RoundsInOrder(after, after.nextMissingNames)

\* C16: when the loop has left, the files discovery has loaded and the known
\* names are those of the run that visits the names of every round in one
\* fixed order: the order of the visits makes no difference.
C16_Deterministic ==
    (pc = "returned" /\ searchDirectories # <<>>) =>
        LET fixed == RoundsInOrder(DiscoverStart, DiscoverStart.examined)
        IN /\ LoadedPaths
                 = UNION {Range(fixed.syntaxTrees[i].buffers) : i \in 1..Len(fixed.syntaxTrees)}
           /\ knownNames = fixed.knownNames

\* The paths <dir>/<name><ext> of a name, directories in registration order
\* and within a directory extensions in registration order.
NamedPaths(name) ==
    [k \in 1..(Len(searchDirectories) * Len(searchExtensions)) |->
        NamedPath(searchDirectories[((k - 1) \div Len(searchExtensions)) + 1], name,
                  searchExtensions[((k - 1) % Len(searchExtensions)) + 1])]

\* C17: a visit of a missing name loads the first <dir>/<name><ext>, in
\* directory and then extension order, that is not cached and can be read,
\* and only that one; without such a path it loads nothing.
C17_SearchOrder ==
    [][\A name \in pending :
          (pc = "discover" /\ pending' = pending \ {name}) =>
              LET named == NamedPaths(name)
                  loadable == Loadable(named, cached)
              IN IF loadable = {}
                 THEN syntaxTrees' = syntaxTrees /\ cached' = cached
                 ELSE /\ Len(syntaxTrees') = Len(syntaxTrees) + 1
                      /\ syntaxTrees'[Len(syntaxTrees')].buffers = <<named[Min(loadable)]>>
                      /\ cached' = cached \cup {named[Min(loadable)]}]_vars

\* ---------------------------------------------------------------------------
\* addLibraryMaps step by step: documents that include documents
\* ---------------------------------------------------------------------------

MaxDepth == 4

\* The library map documents that exist, each with its path.parent_path().
MapParents == [p \in {"a.map", "m/b.map", "m/c.map"} |-> IF p = "a.map" THEN "" ELSE "m"]

\* A pattern without wildcards seen from a base path.
Resolve(basePath, pattern) == IF basePath = "" THEN pattern ELSE basePath \o "/" \o pattern

Include(spec) == [kind |-> "LibraryIncludeStatement", spec |-> spec]
Library(name, spec) == [kind |-> "LibraryDeclaration", name |-> name, spec |-> spec]

\* The member lists each document may have.
MapMembers(path) ==
    CASE path = "a.map" ->
             {<<>>, <<Include("m/b.map")>>, <<Include("m/b.map"), Include("m/c.map")>>,
              <<Library("A", "x.sv"), Include("m/b.map")>>, <<Include("a.map")>>}
      [] path = "m/b.map" ->
             {<<Library("B", "x.sv")>>, <<Include("c.map")>>,
              <<Include("c.map"), Library("B", "x.sv")>>, <<Include("b.map")>>}
      [] path = "m/c.map" ->
             {<<>>, <<Library("A", "y.sv")>>, <<Include("b.map")>>}

\* svGlob(basePath, pattern, GlobMode::Files, files, expandEnvVars, ec) for a
\* pattern that names one file.
SvGlobFile(basePath, pattern) == <<Resolve(basePath, pattern)>>

\* An activation of addLibraryMaps: the files of its glob it has yet to
\* read and, while it is inside a document, the parent path of the document
\* and the members it has yet to visit.
MapFrame(basePath, pattern) ==
    [basePath |-> basePath, files |-> SvGlobFile(basePath, pattern), open |-> FALSE,
     parentPath |-> "", members |-> <<>>]

\* Faulty variant: the members are resolved against the base path of the call.
OpenDocument_CallerBase(frame, path) ==
    [frame EXCEPT !.files = Tail(frame.files), !.open = TRUE,
                  !.parentPath = frame.basePath,
                  !.members = mapFiles[path].members]

\* The activation after it has parsed the document at path.
OpenDocument(frame, path) ==
    [frame EXCEPT !.files = Tail(frame.files), !.open = TRUE,
                  !.parentPath = mapFiles[path].parent,
                  !.members = mapFiles[path].members]

TopFrame == mapStack[Len(mapStack)]

WithTopFrame(frame) == [mapStack EXCEPT ![Len(mapStack)] = frame]

mapsFrame == <<options, readable, syntaxTrees, singleUnitBuffers, deferredLibBuffers,
               inheritedMacros, loadResults, cursor, blocks, numTrees, searchDirectories,
               searchExtensions, uniqueExtensions, extAdds, discVars, mapFiles, paramVars>>

\* addLibraryMaps(pattern, {}, optionBag, false) is called.
MapCall ==
    /\ pc = "mapsCall"
    /\ pc' = "maps"
    /\ mapStack' = <<MapFrame("", "a.map")>>
    /\ UNCHANGED <<regVars, mapsFrame>>

\* The loop over files reads the next file: a failed read is recorded, a
\* document is parsed and retained.
MapReadFile ==
    /\ pc = "maps"
    /\ ~TopFrame.open
    /\ TopFrame.files # <<>>
    /\ LET path == Head(TopFrame.files)
       IN IF path \notin readable
          THEN /\ errors' = Append(errors, ErrorRecord(path))
               /\ mapStack' = WithTopFrame([TopFrame EXCEPT !.files = Tail(TopFrame.files)])
               /\ UNCHANGED libraryMapTrees
          ELSE /\ libraryMapTrees' = Append(libraryMapTrees, path)
               /\ mapStack' = WithTopFrame(OpenDocument(TopFrame, path))
               /\ UNCHANGED errors
    /\ UNCHANGED <<fileEntries, fileIndex, libraries, regs, pc, mapsFrame>>

\* A LibraryIncludeStatement: addLibraryMaps calls itself with the parent
\* path of the document.
MapInclude ==
    /\ pc = "maps"
    /\ TopFrame.open
    /\ TopFrame.members # <<>>
    /\ Head(TopFrame.members).kind = "LibraryIncludeStatement"
    /\ Len(mapStack) < MaxDepth
    /\ mapStack' = Append(WithTopFrame([TopFrame EXCEPT !.members = Tail(TopFrame.members)]),
                          MapFrame(TopFrame.parentPath, Head(TopFrame.members).spec))
    /\ UNCHANGED <<regVars, pc, mapsFrame>>

\* A LibraryDeclaration: createLibrary(syntax, parentPath).
MapLibrary ==
    /\ pc = "maps"
    /\ TopFrame.open
    /\ TopFrame.members # <<>>
    /\ Head(TopFrame.members).kind = "LibraryDeclaration"
    /\ LET member == Head(TopFrame.members)
           st == RegisterFiles(
                     [RegState EXCEPT !.libraries = LibrariesWith(libraries, member.name)],
                     SvGlobFile(TopFrame.parentPath, member.spec), TRUE,
                     LibraryOf(member.name), 0)
       IN /\ fileEntries' = st.fileEntries
          /\ fileIndex' = st.fileIndex
          /\ libraries' = st.libraries
          /\ regs' = st.regs
    /\ mapStack' = WithTopFrame([TopFrame EXCEPT !.members = Tail(TopFrame.members)])
    /\ UNCHANGED <<errors, libraryMapTrees, pc, mapsFrame>>

\* The loop over the members of a document is over.
MapCloseDocument ==
    /\ pc = "maps"
    /\ TopFrame.open
    /\ TopFrame.members = <<>>
    /\ mapStack' = WithTopFrame([TopFrame EXCEPT !.open = FALSE])
    /\ UNCHANGED <<regVars, pc, mapsFrame>>

\* The loop over files is over: the activation returns.
MapReturn ==
    /\ pc = "maps"
    /\ ~TopFrame.open
    /\ TopFrame.files = <<>>
    /\ mapStack' = SubSeq(mapStack, 1, Len(mapStack) - 1)
    /\ pc' = IF Len(mapStack) = 1 THEN "mapsDone" ELSE "maps"
    /\ UNCHANGED <<regVars, mapsFrame>>

\* A fresh loader and the documents on disk: every choice of their members
\* and of the documents that can be read.
InitMaps ==
    /\ \E a \in MapMembers("a.map"), b \in MapMembers("m/b.map"), c \in MapMembers("m/c.map") :
           mapFiles = [p \in DOMAIN MapParents |->
                          [parent |-> MapParents[p],
                           members |-> CASE p = "a.map" -> a
                                         [] p = "m/b.map" -> b
                                         [] p = "m/c.map" -> c]]
    /\ mapStack = <<>>
    /\ InitParamIdle
    /\ pc = "mapsCall"
    /\ readable \in SUBSET DOMAIN MapParents
    /\ fileEntries = <<>>
    /\ fileIndex = <<>>
    /\ libraries = {}
    /\ errors = <<>>
    /\ libraryMapTrees = <<>>
    /\ regs = <<>>
    /\ options = [singleUnit |-> FALSE, librariesInheritMacros |-> FALSE,
                  onlyLint |-> FALSE, numThreads |-> 1]
    /\ syntaxTrees = <<>>
    /\ singleUnitBuffers = <<>>
    /\ deferredLibBuffers = <<>>
    /\ inheritedMacros = {}
    /\ loadResults = <<>>
    /\ cursor = 0
    /\ blocks = <<>>
    /\ numTrees = 0
    /\ searchDirectories = <<>>
    /\ searchExtensions = <<".v", ".sv">>
    /\ uniqueExtensions = {".v", ".sv"}
    /\ extAdds = <<>>
    /\ cached = {}
    /\ knownNames = {}
    /\ missingNames = {}
    /\ nextMissingNames = {}
    /\ pending = {}
    /\ round = 0
    /\ examined = {}

NextMaps ==
    \/ MapCall
    \/ MapReadFile
    \/ MapInclude
    \/ MapLibrary
    \/ MapCloseDocument
    \/ MapReturn

SpecMaps == InitMaps /\ [][NextMaps]_vars

\* addLibraryMaps runs on the calling thread, which goes on as long as it
\* has a step to take.
FairMaps == SpecMaps /\ WF_vars(NextMaps)

\* The documents a readable document includes.
Includes(path) ==
    IF path \notin readable THEN {}
    ELSE {Resolve(mapFiles[path].parent, mapFiles[path].members[i].spec) :
             i \in {k \in 1..Len(mapFiles[path].members) :
                       mapFiles[path].members[k].kind = "LibraryIncludeStatement"}}

\* The documents reached from a set of documents in at most n includes.
RECURSIVE IncludedFrom(_, _)
IncludedFrom(paths, n) ==
    IF n = 0 THEN paths
    ELSE IncludedFrom(paths \cup UNION {Includes(p) : p \in paths}, n - 1)

ReachableMaps == IncludedFrom({"a.map"}, Cardinality(DOMAIN mapFiles))

\* Some reachable document includes itself, directly or through others.
IncludeCycle ==
    \E p \in ReachableMaps : p \in IncludedFrom(Includes(p), Cardinality(DOMAIN mapFiles))

\* Every reachable readable document is retained and its library
\* declarations are registered under the parent path of the document.
MapsRealized ==
    \A p \in ReachableMaps \cap readable :
        /\ p \in Range(libraryMapTrees)
        /\ \A i \in 1..Len(mapFiles[p].members) :
              LET member == mapFiles[p].members[i]
              IN member.kind = "LibraryDeclaration" =>
                    \E r \in 1..Len(regs) :
                        /\ regs[r].path = Resolve(mapFiles[p].parent, member.spec)
                        /\ regs[r].isLibraryFile
                        /\ regs[r].library = LibraryOf(member.name)

\* C19: addLibraryMaps returns exactly when no reachable document includes
\* itself; when it includes itself the recursion goes to any depth; when
\* the call has returned every reachable readable document is retained and
\* each library declaration is registered relative to the parent directory
\* of its document.
C19_IncludeRecursion ==
    /\ IncludeCycle => ([](pc # "mapsDone") /\ <>(Len(mapStack) = MaxDepth))
    /\ ~IncludeCycle => <>(pc = "mapsDone")
    /\ [](pc = "mapsDone" => MapsRealized)

\* The call has returned after a.map included m/b.map, which included
\* m/c.map, and the library of m/b.map has the file m/x.sv.
C19_Witness ==
    /\ pc = "mapsDone"
    /\ libraryMapTrees = <<"a.map", "m/b.map", "m/c.map">>
    /\ "m/x.sv" \in DOMAIN fileIndex

\* ---------------------------------------------------------------------------
\* The slots the pool threads write
\* ---------------------------------------------------------------------------

\* Block b has taken one iteration and no other block has moved.
WorkerStep(b) == blocks' = [blocks EXCEPT ![b].next = blocks[b].next + 1]

\* Index i belongs to the range of block b and to no other.
OwnIndex(b, i) ==
    /\ blocks[b].start <= i /\ i < blocks[b].end
    /\ \A c \in (1..Len(blocks)) \ {b} : ~(blocks[c].start <= i /\ i < blocks[c].end)

\* Exactly slot k of a list changes between the two lists.
OnlySlotChanges(before, after, k) ==
    /\ Len(after) = Len(before)
    /\ after[k] # before[k]
    /\ \A j \in (1..Len(before)) \ {k} : after[j] = before[j]

\* C21: while the tasks of a pushLoop run, a step is the write of one slot
\* by one task: the slot lies in the index range of that task and of no
\* other, it has not been written before, and the lists the calling thread
\* owns stay as they are; when the barrier returns every slot has been
\* written.
C21_WorkersOwnSlots ==
    [][ /\ (pc = "poolLoad" /\ pc' = "poolLoad") =>
              \E b \in 1..Len(blocks) :
                  /\ WorkerStep(b)
                  /\ OwnIndex(b, blocks[b].next)
                  /\ loadResults[blocks[b].next + 1] = NoResult
                  /\ OnlySlotChanges(loadResults, loadResults', blocks[b].next + 1)
                  /\ UNCHANGED <<syntaxTrees, singleUnitBuffers, deferredLibBuffers,
                                 errors, inheritedMacros>>
        /\ (pc = "poolLoad" /\ pc' \in {"poolDeferred", "parsed"}) =>
              \A k \in 1..Len(loadResults) : loadResults[k] # NoResult
        /\ (pc = "poolDeferred" /\ pc' = "poolDeferred") =>
              \E b \in 1..Len(blocks) :
                  /\ WorkerStep(b)
                  /\ OwnIndex(b, blocks[b].next)
                  /\ syntaxTrees[blocks[b].next + numTrees + 1] = NoTree
                  /\ OnlySlotChanges(syntaxTrees, syntaxTrees', blocks[b].next + numTrees + 1)
                  /\ UNCHANGED <<singleUnitBuffers, deferredLibBuffers, errors,
                                 inheritedMacros, loadResults>>
        /\ (pc = "poolDeferred" /\ pc' = "parsed") =>
              \A k \in 1..Len(syntaxTrees) : syntaxTrees[k] # NoTree ]_vars

\* Both tasks of the second pushLoop have written their slot behind the
\* tree of the single unit.
C21_Witness ==
    /\ pc = "poolDeferred"
    /\ numTrees = 1
    /\ Len(blocks) = 2
    /\ \A b \in 1..Len(blocks) : blocks[b].next = blocks[b].end
    /\ \A k \in 1..Len(syntaxTrees) : syntaxTrees[k] # NoTree

\* ---------------------------------------------------------------------------
\* The trees of the files found in the search directories
\* ---------------------------------------------------------------------------

\* The trees the loop has added behind those of the registered files.
DiscoveredTrees == {i \in 1..Len(syntaxTrees) : i > Len(SequentialOutcome.syntaxTrees)}

\* C22: a tree the loop has added shares no path with a tree before it in
\* the list, be that the tree of a registered file or of a file the loop
\* has found earlier.
C22_NoFileTwice ==
    \A j \in DiscoveredTrees : \A i \in 1..(j - 1) :
        Range(syntaxTrees[i].buffers) \cap Range(syntaxTrees[j].buffers) = {}

\* C was missing, the registered d2/C.v was passed over in the first
\* directory and d1/C.sv was loaded from the second.
C22_Witness ==
    /\ pc = "returned"
    /\ searchDirectories = <<"d2", "d1">>
    /\ Len(fileEntries) = 2
    /\ "d2/C.v" \in PathsRead
    /\ \E j \in DiscoveredTrees : syntaxTrees[j].buffers = <<"d1/C.sv">>

\* C23: with librariesInheritMacros off no tree marked as a library tree was
\* parsed with inherited macros, be it the tree of a registered library
\* file or of a file found in a search directory while singleUnit is on and
\* the single unit defines macros.
C23_NoMacrosForLibraryTrees ==
    ~options.librariesInheritMacros =>
        \A i \in 1..Len(syntaxTrees) :
            syntaxTrees[i].isLibrary => syntaxTrees[i].inherited = {}

\* The kinds of tree of a parse: the tree of the single unit holds the
\* buffers of the direct files, an immediately parsed tree holds the one
\* buffer of an entry that loadAndParse neither put into the single unit nor
\* deferred.
IsSingleUnitTree(tree) ==
    /\ options.singleUnit
    /\ tree.buffers # <<>>
    /\ \A k \in 1..Len(tree.buffers) :
           /\ tree.buffers[k] \in DOMAIN fileIndex
           /\ ~EntryOfBuffer(tree.buffers[k]).isLibraryFile

IsImmediateTree(tree) ==
    /\ Len(tree.buffers) = 1
    /\ tree.buffers[1] \in DOMAIN fileIndex
    /\ ~(~EntryOfBuffer(tree.buffers[1]).isLibraryFile /\ options.singleUnit)
    /\ ~options.librariesInheritMacros

\* C24: a tree of a file found by the discovery is a library tree whatever
\* the options; an immediately parsed tree is a library tree exactly when
\* its entry is a library file or onlyLint is on; the tree of the single
\* unit is a library tree exactly when onlyLint is on.
C24_LibraryMarks ==
    \A i \in 1..Len(syntaxTrees) :
        LET tree == syntaxTrees[i]
        IN IF i \in DiscoveredTrees
           THEN tree.isLibrary
           ELSE /\ IsSingleUnitTree(tree) => (tree.isLibrary <=> options.onlyLint)
                /\ IsImmediateTree(tree) =>
                       (tree.isLibrary <=>
                            (EntryOfBuffer(tree.buffers[1]).isLibraryFile \/ options.onlyLint))

\* A parse without onlyLint that ends with the three kinds side by side: the
\* single unit, not a library tree, the tree of the library file f2.sv and
\* the tree of a file found in a search directory.
C24_Witness ==
    /\ pc = "returned"
    /\ options.singleUnit /\ ~options.librariesInheritMacros /\ ~options.onlyLint
    /\ \E i, j, k \in 1..Len(syntaxTrees) :
           /\ IsSingleUnitTree(syntaxTrees[i]) /\ ~syntaxTrees[i].isLibrary
           /\ IsImmediateTree(syntaxTrees[j]) /\ syntaxTrees[j].isLibrary
           /\ k \in DiscoveredTrees /\ syntaxTrees[k].isLibrary

\* ---------------------------------------------------------------------
\* ParameterBuilder::setAssignments
\* ---------------------------------------------------------------------

\* The longest parameter list of a definition and the longest assignment
\* list of an instantiation.
MaxParams == 2
MaxAssigns == 3

\* Definition::ParameterDecl as far as setAssignments reads it. Nothing
\* keeps two declarations of a definition from carrying the same name.
ParamNames == {"P", "Q"}
Decls == [name : ParamNames, isLocalParam : BOOLEAN, isPortParam : BOOLEAN]

\* The members of syntax.parameters: an ordered assignment, or a named one
\* with its name and with or without an expression, or a named one whose
\* name is empty after a parse error (it is passed over whatever else it
\* holds). The expression of an assignment is identified by the position of
\* the assignment in the list.
ParamAssignments ==
    {[kind |-> "ordered", name |-> "", hasExpr |-> TRUE],
     [kind |-> "named", name |-> "", hasExpr |-> TRUE]}
        \cup [kind : {"named"}, name : {"P", "R"}, hasExpr : BOOLEAN]

SeqsUpTo(S, n) == UNION {[1..k -> S] : k \in 0..n}

\* map.emplace(key, value): an existing key keeps its value.
Emplace(map, key, value) ==
    IF key \in DOMAIN map THEN map
    ELSE [k \in DOMAIN map \cup {key} |-> IF k = key THEN value ELSE map[k]]

\* scope.addDiag(code, location), the location being that of the assignment
\* at position at.
Diag(code, at) == [code |-> code, at |-> at]

\* The locals of setAssignments before its first loop.
NoAssignments ==
    [hasParamAssignments |-> FALSE, orderedAssignments |-> TRUE,
     orderedParams |-> <<>>, namedParams |-> <<>>, diags |-> {}]

\* The loop over syntax.parameters from position i on.
RECURSIVE CollectAssignments(_, _, _)
CollectAssignments(params, i, st) ==
    IF i > Len(params) THEN st
    ELSE LET isOrdered == params[i].kind = "ordered"
             first == ~st.hasParamAssignments
             st1 == IF first
                    THEN [st EXCEPT !.hasParamAssignments = TRUE,
                                    !.orderedAssignments = isOrdered]
                    ELSE st
             name == params[i].name
         IN IF ~first /\ isOrdered # st.orderedAssignments
            THEN [st EXCEPT !.diags = @ \cup {Diag("MixingOrderedAndNamedParams", i)}]
            ELSE CollectAssignments(params, i + 1,
                     IF isOrdered
                     THEN [st1 EXCEPT !.orderedParams = Append(@, i)]
                     ELSE IF name = "" THEN st1
                     ELSE IF name \in DOMAIN st1.namedParams
                     THEN [st1 EXCEPT !.diags = @ \cup {Diag("DuplicateParamAssignment", i)}]
                     ELSE [st1 EXCEPT !.namedParams =
                                          Emplace(@, name, [syntax |-> i, used |-> FALSE])])

\* Faulty variant: a localparam takes an ordered assignment like any other
\* parameter.
OrderedStep_NoSkip(st, param, orderedParams) ==
    [assignments |-> Emplace(st.assignments, param.name, orderedParams[st.orderedIndex + 1]),
     orderedIndex |-> st.orderedIndex + 1]

\* The body of the loop over parameterDecls for ordered assignments, past
\* the test that assignments are left.
OrderedStep(st, param, orderedParams) ==
    IF param.isLocalParam THEN st
    ELSE [assignments |-> Emplace(st.assignments, param.name,
                                  orderedParams[st.orderedIndex + 1]),
          orderedIndex |-> st.orderedIndex + 1]

\* The loop over parameterDecls for ordered assignments from position j on.
RECURSIVE BindOrdered(_, _, _, _)
BindOrdered(decls, j, orderedParams, st) ==
    IF j > Len(decls) \/ st.orderedIndex >= Len(orderedParams) THEN st
    ELSE BindOrdered(decls, j + 1, orderedParams, OrderedStep(st, decls[j], orderedParams))

\* The body of the loop over parameterDecls for named assignments.
NamedStep(st, param, params) ==
    IF param.name \notin DOMAIN st.namedParams THEN st
    ELSE LET arg == st.namedParams[param.name].syntax
             st1 == [st EXCEPT !.namedParams[param.name].used = TRUE]
         IN IF param.isLocalParam
            THEN [st1 EXCEPT !.diags = @ \cup
                     {Diag(IF param.isPortParam THEN "AssignedToLocalPortParam"
                                                ELSE "AssignedToLocalBodyParam", arg)}]
            ELSE IF ~params[arg].hasExpr THEN st1
            ELSE [st1 EXCEPT !.assignments = Emplace(@, param.name, arg)]

RECURSIVE BindNamed(_, _, _, _)
BindNamed(decls, j, params, st) ==
    IF j > Len(decls) THEN st
    ELSE BindNamed(decls, j + 1, params, NamedStep(st, decls[j], params))

\* setAssignments(syntax) on a builder that holds the assignments map: the
\* map and the diagnostics it leaves.
SetAssignmentsResult(decls, params, map) ==
    LET got == CollectAssignments(params, 1, NoAssignments)
    IN IF got.orderedAssignments
       THEN LET bound == BindOrdered(decls, 1, got.orderedParams,
                                     [assignments |-> map, orderedIndex |-> 0])
            IN [assignments |-> bound.assignments,
                diags |-> got.diags \cup
                          (IF bound.orderedIndex < Len(got.orderedParams)
                           THEN {Diag("TooManyParamAssignments",
                                      got.orderedParams[bound.orderedIndex + 1])}
                           ELSE {})]
       ELSE LET bound == BindNamed(decls, 1, params,
                                   [assignments |-> map, namedParams |-> got.namedParams,
                                    diags |-> got.diags])
            IN [assignments |-> bound.assignments,
                diags |-> bound.diags \cup
                          {Diag("ParameterDoesNotExist", bound.namedParams[n].syntax) :
                               n \in {m \in DOMAIN bound.namedParams :
                                          ~bound.namedParams[m].used}}]

\* builder.setAssignments(syntax)
SetAssignments ==
    /\ paramPc = "built"
    /\ LET result == SetAssignmentsResult(parameterDecls, parameters, assignments)
       IN /\ assignments' = result.assignments
          /\ diags' = diags \cup result.diags
    /\ paramPc' = "assigned"
    /\ UNCHANGED <<parameterDecls, parameters, regVars, loadVars, searchDirectories,
                   searchExtensions, uniqueExtensions, extAdds, discVars, mapVars>>

\* A builder right after its construction, for every parameter list and
\* every assignment list within the bounds; the loader is untouched.
InitParams ==
    /\ parameterDecls \in SeqsUpTo(Decls, MaxParams)
    /\ parameters \in SeqsUpTo(ParamAssignments, MaxAssigns)
    /\ assignments = <<>>
    /\ diags = {}
    /\ paramPc = "built"
    /\ fileEntries = <<>>
    /\ fileIndex = <<>>
    /\ libraries = {}
    /\ errors = <<>>
    /\ libraryMapTrees = <<>>
    /\ regs = <<>>
    /\ InitLoadIdle
    /\ searchDirectories = <<>>
    /\ searchExtensions = <<".v", ".sv">>
    /\ uniqueExtensions = {".v", ".sv"}
    /\ extAdds = <<>>
    /\ cached = {}
    /\ knownNames = {}
    /\ missingNames = {}
    /\ nextMissingNames = {}
    /\ pending = {}
    /\ round = 0
    /\ examined = {}
    /\ mapStack = <<>>
    /\ mapFiles = <<>>

NextParams == SetAssignments

SpecParams == InitParams /\ [][NextParams]_vars

\* The parameters that are not localparams, in declaration order.
NonLocalParams == SelectSeq(parameterDecls, LAMBDA decl : ~decl.isLocalParam)

\* The assignment list is one of ordered assignments.
OrderedOnly == \A i \in 1..Len(parameters) : parameters[i].kind = "ordered"

\* The positions at which an ordered assignment meets a non-local parameter.
BoundPositions ==
    1..(IF Len(parameters) < Len(NonLocalParams) THEN Len(parameters)
        ELSE Len(NonLocalParams))

TooManyReported == \E d \in diags : d.code = "TooManyParamAssignments"

\* C25: setAssignments with ordered assignments binds the k-th assignment
\* to the k-th parameter that is not a localparam, gives no localparam an
\* assignment, and reports TooManyParamAssignments exactly when there are
\* more ordered assignments than non-local parameters.
C25_OrderedBinding ==
    (paramPc = "assigned" /\ OrderedOnly) =>
        /\ \A k \in BoundPositions :
               /\ NonLocalParams[k].name \in DOMAIN assignments
               /\ assignments[NonLocalParams[k].name] = k
        /\ \A j \in 1..Len(parameterDecls) :
               parameterDecls[j].isLocalParam =>
                   parameterDecls[j].name \notin DOMAIN assignments
        /\ TooManyReported <=> Len(parameters) > Len(NonLocalParams)

\* C25 as amended: the assignments are kept by parameter name, so the k-th
\* ordered assignment is kept under the name of the k-th non-local
\* parameter unless an earlier non-local parameter has that name, whose
\* assignment then stays; no other name has an assignment, so a localparam
\* has one under its name only if it shares the name with such a non-local
\* parameter; TooManyParamAssignments is reported exactly when there are
\* more ordered assignments than non-local parameters.
C25_OrderedBindingByName ==
    (paramPc = "assigned" /\ OrderedOnly) =>
        /\ DOMAIN assignments = {NonLocalParams[k].name : k \in BoundPositions}
        /\ \A k \in BoundPositions :
               LET same == {h \in 1..k : NonLocalParams[h].name = NonLocalParams[k].name}
               IN assignments[NonLocalParams[k].name] = Min(same)
        /\ TooManyReported <=> Len(parameters) > Len(NonLocalParams)

\* A localparam ahead of a parameter, three ordered assignments: the first
\* goes to the parameter, the second is reported.
C25_Witness ==
    /\ paramPc = "assigned"
    /\ OrderedOnly /\ Len(parameters) = 3
    /\ Len(parameterDecls) = 2
    /\ parameterDecls[1].isLocalParam /\ parameterDecls[1].name = "P"
    /\ ~parameterDecls[2].isLocalParam /\ parameterDecls[2].name = "Q"
    /\ assignments = [n \in {"Q"} |-> 1]
    /\ diags = {Diag("TooManyParamAssignments", 2)}
====
